---- MODULE Spec2Model ----
(***************************************************************************)
(* A model of the claude-code-tracer proxy: the POST /v1/messages capture  *)
(* pipeline (buffered and streaming), the trace store, the broadcast hub   *)
(* and the observers.  The repository holds two copies of the proxy:       *)
(*   "part_000"     src/unnamed/part_000  (prepared statements, headers     *)
(*                  stored as null, token totals on completion)            *)
(*   "proxy_server" src/proxy/server.js   (request headers stored, per      *)
(*                  chunk stream_chunk events, output-token count)         *)
(* The variable impl says which copy is running; it never changes.         *)
(*                                                                         *)
(* JavaScript values are tagged records [t |-> <typeof-like tag>, ...] so  *)
(* that typeof tests, truthiness and ?. are modelled as the code has them. *)
(* A text (a JS string or the bytes of a Buffer) is a sequence of tokens:  *)
(* "NL" is a line feed, "SP" a blank, "event:" and "data:" the SSE field    *)
(* prefixes, a token of DOMAIN JsonDocs a serialized JSON document on one  *)
(* line, "LEAD" and "CONT" the two bytes of a two-byte UTF-8 character and *)
(* "REPL" the replacement character U+FFFD.                                *)
(*                                                                         *)
(* Time is not modelled: rows and messages are without their timestamp and *)
(* latency fields; only the stored rows the trace query is run over carry   *)
(* a timestamp, which its ORDER BY reads.  The variable feed records every  *)
(* message handed to broadcast, upstream what the upstream endpoint has     *)
(* delivered so far, threw which store writes of a capture have thrown,     *)
(* closed the observers whose close event has been handled; none is read   *)
(* by an action's guard or effect.  res[c].destroyed says that the caller   *)
(* of capture c has closed its connection.                                  *)
(*                                                                         *)
(* Where an operator uses a computed value more than once, the value is     *)
(* bound once, by \E v \in {e} in an action and by a set {f(v) : v \in {e}}  *)
(* in an expression; both mean f(e).                                        *)
(***************************************************************************)
EXTENDS Integers, Sequences, FiniteSets, TLC

(***************************************************************************)
(* JavaScript / JSON values                                                *)
(***************************************************************************)
Undef == [t |-> "undefined"]
JNull == [t |-> "null"]
JNum(n) == [t |-> "number", n |-> n]
\* the number Infinity, which JSON.parse gives for a literal such as 1e999
JInfinity == [t |-> "number", inf |-> TRUE]
JStr(s) == [t |-> "string", s |-> s]
JBool(b) == [t |-> "boolean", b |-> b]
JArr(a) == [t |-> "array", a |-> a]
JObj(o) == [t |-> "object", o |-> o]

\* JS truthiness (the operand of !, ||, ?: and if)
Truthy(v) ==
  CASE v.t \in {"undefined", "null"} -> FALSE
    [] v.t = "number" -> IF "n" \in DOMAIN v THEN v.n # 0 ELSE TRUE
    [] v.t = "string" -> v.s # <<>>
    [] v.t = "boolean" -> v.b
    [] OTHER -> TRUE

\* typeof v === "number", isFinite(v), a + b on numbers
TypeofNumber(v) == v.t = "number"
IsFinite(v) == v.t = "number" /\ "n" \in DOMAIN v
Plus(a, b) == IF IsFinite(a) /\ IsFinite(b) THEN JNum(a.n + b.n) ELSE JInfinity

\* typeof v === "object" (true of null and of arrays too)
TypeofObject(v) == v.t \in {"object", "array", "null"}

\* v.k on a value that is neither null nor undefined
Get(v, k) == IF v.t = "object" /\ k \in DOMAIN v.o THEN v.o[k] ELSE Undef

\* v?.k
OptGet(v, k) == IF v.t \in {"undefined", "null"} THEN Undef ELSE Get(v, k)

\* a || b
OrElse(a, b) == IF Truthy(a) THEN a ELSE b

\* JSON.stringify(v): a string holding the serialization of v; undefined stays undefined
JSONstringify(v) == IF v.t = "undefined" THEN Undef ELSE [t |-> "string", json |-> v]

(***************************************************************************)
(* Usage Extractor                                                         *)
(***************************************************************************)
calculateTokens(usage) ==
  IF ~Truthy(usage) \/ ~TypeofObject(usage) THEN JNum(0)
  ELSE LET total == Get(usage, "total_tokens")
           input == IF TypeofNumber(Get(usage, "input_tokens"))
                    THEN Get(usage, "input_tokens") ELSE JNum(0)
           output == IF TypeofNumber(Get(usage, "output_tokens"))
                     THEN Get(usage, "output_tokens") ELSE JNum(0)
       IN IF TypeofNumber(total) /\ IsFinite(total) THEN total ELSE Plus(input, output)

\* the UI's type guard isRecord and its calculateTokens (ui/src/lib/utils.ts)
isRecord(value) == TypeofObject(value) /\ value # JNull
ui_calculateTokens(usage) ==
  IF ~isRecord(usage) THEN JNum(0)
  ELSE LET total == Get(usage, "total_tokens")
           input == Get(usage, "input_tokens")
           output == Get(usage, "output_tokens")
           inputNum == IF TypeofNumber(input) /\ IsFinite(input) THEN input ELSE JNum(0)
           outputNum == IF TypeofNumber(output) /\ IsFinite(output) THEN output ELSE JNum(0)
       IN IF TypeofNumber(total) /\ IsFinite(total) THEN total
          ELSE Plus(inputNum, outputNum)

\* usage values: records with each field absent, a number, or something else, and
\* values that are no records
Absent == [t |-> "absent"]
Field(k, v) == IF v = Absent THEN <<>> ELSE (k :> v)
UsageRecords ==
  {JObj(Field("total_tokens", t) @@ Field("input_tokens", i) @@ Field("output_tokens", o)) :
     t \in {Absent, JNum(42), JNum(0), JStr(<<"42">>), JNull, JInfinity},
     i \in {Absent, JNum(10), JStr(<<"10">>), JInfinity},
     o \in {Absent, JNum(5), JStr(<<"5">>), JInfinity}}
UsageValues ==
  UsageRecords \cup {Undef, JNull, JNum(0), JNum(3), JStr(<<"usage">>), JBool(TRUE),
                     JArr(<<>>), JArr(<<JNum(1)>>)}

(***************************************************************************)
(* Texts                                                                   *)
(***************************************************************************)
\* the serialized JSON documents that occur in the modelled traffic, and their values
UsageStart == JObj([input_tokens |-> JNum(3), output_tokens |-> JNum(0)])
UsageDelta == JObj([input_tokens |-> JNum(3), output_tokens |-> JNum(7)])
UsageFinal == JObj([total_tokens |-> JNum(42), input_tokens |-> JNum(1), output_tokens |-> JNum(1)])

ToolUseA == JObj([type |-> JStr(<<"tool_use">>), name |-> JStr(<<"A">>),
                  input |-> JObj([path |-> JStr(<<"p">>)])])
ToolUseB == JObj([type |-> JStr(<<"tool_use">>), name |-> JStr(<<"B">>)])
TextBlock == JObj([type |-> JStr(<<"text">>), text |-> JStr(<<"hi">>)])

JsonDocs ==
  [d \in {"{start}", "{delta}", "{final}", "{msg}", "{err}", "[1]"} |->
     CASE d = "{start}" -> JObj([type |-> JStr(<<"message_start">>),
                                 message |-> JObj([usage |-> UsageStart])])
       [] d = "{delta}" -> JObj([type |-> JStr(<<"message_delta">>), usage |-> UsageDelta])
       [] d = "{final}" -> JObj([usage |-> UsageFinal])
       [] d = "{msg}" -> JObj([content |-> JArr(<<TextBlock, ToolUseA, ToolUseB>>),
                               usage |-> JObj([input_tokens |-> JNum(10),
                                               output_tokens |-> JNum(5)])])
       [] d = "{err}" -> JObj([type |-> JStr(<<"error">>)])
       [] OTHER -> JArr(<<JNum(1)>>)]

\* tokens whose text begins with "{" / ends with "}"; "{bad}" is brace-delimited but not JSON
StartsWithBrace(tok) == tok \in {"{start}", "{delta}", "{final}", "{msg}", "{err}", "{bad}"}
EndsWithBrace(tok) == tok \in {"{start}", "{delta}", "{final}", "{msg}", "{err}", "{bad}"}

IsSpace(tok) == tok \in {"SP", "NL"}

RECURSIVE TrimStart(_)
TrimStart(s) == IF s # <<>> /\ IsSpace(Head(s)) THEN TrimStart(Tail(s)) ELSE s

RECURSIVE TrimEnd(_)
TrimEnd(s) == IF s # <<>> /\ IsSpace(s[Len(s)]) THEN TrimEnd(SubSeq(s, 1, Len(s) - 1)) ELSE s

\* String.prototype.trim
Trim(s) == TrimEnd(TrimStart(s))

\* s.split("\n"): the parts between line feeds, empty parts included
RECURSIVE SplitLines(_, _)
SplitLines(s, cur) ==
  IF s = <<>> THEN <<cur>>
  ELSE IF Head(s) = "NL" THEN <<cur>> \o SplitLines(Tail(s), <<>>)
  ELSE SplitLines(Tail(s), Append(cur, Head(s)))

\* s.split("\n\n"): left to right, separators do not overlap
RECURSIVE SplitRecords(_, _)
SplitRecords(s, cur) ==
  IF s = <<>> THEN <<cur>>
  ELSE IF Len(s) >= 2 /\ s[1] = "NL" /\ s[2] = "NL"
       THEN <<cur>> \o SplitRecords(SubSeq(s, 3, Len(s)), <<>>)
  ELSE SplitRecords(Tail(s), Append(cur, Head(s)))

\* parts.join("\n")
RECURSIVE JoinLines(_)
JoinLines(parts) ==
  IF parts = <<>> THEN <<>>
  ELSE IF Len(parts) = 1 THEN parts[1]
  ELSE parts[1] \o <<"NL">> \o JoinLines(Tail(parts))

\* JSON.parse(text): [ok |-> TRUE, v |-> value], or [ok |-> FALSE] when it throws
JSONparse(text) ==
  LET body == Trim(text)
  IN IF Len(body) = 1 /\ body[1] \in DOMAIN JsonDocs
     THEN [ok |-> TRUE, v |-> JsonDocs[body[1]]]
     ELSE [ok |-> FALSE]

\* Buffer.prototype.toString() (UTF-8) of one chunk: a byte that is no part of a
\* complete character within this chunk decodes to U+FFFD
RECURSIVE BufferToString(_)
BufferToString(chunk) ==
  IF chunk = <<>> THEN <<>>
  ELSE IF Head(chunk) = "LEAD" /\ Len(chunk) >= 2 /\ chunk[2] = "CONT"
       THEN <<"LEAD", "CONT">> \o BufferToString(SubSeq(chunk, 3, Len(chunk)))
  ELSE IF Head(chunk) \in {"LEAD", "CONT"}
       THEN <<"REPL">> \o BufferToString(Tail(chunk))
  ELSE <<Head(chunk)>> \o BufferToString(Tail(chunk))

(***************************************************************************)
(* SSE Reassembler                                                         *)
(***************************************************************************)
\* the inner loop of extractUsageFromSSE over the lines of one record
RECURSIVE ScanLines(_, _, _)
ScanLines(lines, evt, dataParts) ==
  IF lines = <<>> THEN [evt |-> evt, dataParts |-> dataParts]
  ELSE LET t == Trim(Head(lines))
       IN IF t = <<>> THEN ScanLines(Tail(lines), evt, dataParts)
          ELSE IF Head(t) = "event:" THEN ScanLines(Tail(lines), JStr(Trim(Tail(t))), dataParts)
          ELSE IF Head(t) = "data:"
               THEN ScanLines(Tail(lines), evt, Append(dataParts, Trim(Tail(t))))
          ELSE ScanLines(Tail(lines), evt, dataParts)

\* mutant: data that is not JSON ends the scan in the outer catch, which returns null
UsageAfterRecord_Aborting(rec, usage) ==
  IF rec = <<>> THEN usage
  ELSE LET scan == ScanLines(SplitLines(rec, <<>>), JNull, <<>>)
           parsed == JSONparse(JoinLines(scan.dataParts))
       IN IF scan.evt # JStr(<<"message_delta">>) /\ scan.evt # JStr(<<"message_start">>)
          THEN usage
          ELSE IF ~parsed.ok THEN JNull
          ELSE IF scan.evt = JStr(<<"message_delta">>)
               THEN OrElse(OptGet(parsed.v, "usage"), usage)
          ELSE OrElse(OptGet(OptGet(parsed.v, "message"), "usage"), usage)

\* the body of the outer loop of extractUsageFromSSE: the usage after record rec
UsageAfterRecord(rec, usage) ==
  IF rec = <<>> THEN usage
  ELSE LET scan == ScanLines(SplitLines(rec, <<>>), JNull, <<>>)
           evt == scan.evt
           parsed == JSONparse(JoinLines(scan.dataParts))
       IN IF evt # JStr(<<"message_delta">>) /\ evt # JStr(<<"message_start">>) THEN usage
          ELSE IF ~parsed.ok THEN usage
          ELSE IF evt = JStr(<<"message_delta">>)
               THEN IF Truthy(parsed.v) /\ TypeofObject(parsed.v)
                       /\ Truthy(Get(parsed.v, "usage"))
                    THEN Get(parsed.v, "usage") ELSE usage
          ELSE IF Truthy(parsed.v) /\ TypeofObject(parsed.v)
                  /\ Truthy(Get(parsed.v, "message"))
                  /\ TypeofObject(Get(parsed.v, "message"))
                  /\ Truthy(Get(Get(parsed.v, "message"), "usage"))
               THEN Get(Get(parsed.v, "message"), "usage") ELSE usage

RECURSIVE ScanRecords(_, _)
ScanRecords(records, usage) ==
  IF records = <<>> THEN usage
  ELSE ScanRecords(Tail(records), UsageAfterRecord(Head(records), usage))

extractUsageFromSSE(sse) == ScanRecords(SplitRecords(sse, <<>>), JNull)

\* the UI's parseSSEToEvents (ui/src/lib/utils.ts): one element of events
EventOfRecord(rec) ==
  LET scan == ScanLines(SplitLines(rec, <<>>), JNull, <<>>)
      rawData == JoinLines(scan.dataParts)
      parsed == JSONparse(rawData)
  IN [event |-> IF scan.evt = JNull THEN JStr(<<"message">>) ELSE scan.evt,
      data |-> IF parsed.ok THEN parsed.v ELSE JStr(rawData),
      raw |-> JStr(rawData)]

\* a record that is empty, or has neither an event name nor data, gives no element
GivesEvent(rec) ==
  /\ rec # <<>>
  /\ LET scan == ScanLines(SplitLines(rec, <<>>), JNull, <<>>)
     IN ~(scan.evt = JNull /\ scan.dataParts = <<>>)

parseSSEToEvents(sse) ==
  LET kept == SelectSeq(SplitRecords(sse, <<>>), GivesEvent)
  IN [i \in DOMAIN kept |-> EventOfRecord(kept[i])]

\* the UI's summarizeAnthropicSSE (ui/src/lib/utils.ts), its usage field: parseSSEToEvents
\* keeps a record that has an event name or data, with the data parsed when it is JSON
\* and left a string otherwise; text and stopReason are not modelled
SummaryUsageAfterRecord(rec, usage) ==
  IF rec = <<>> THEN usage
  ELSE LET scan == ScanLines(SplitLines(rec, <<>>), JNull, <<>>)
           rawData == JoinLines(scan.dataParts)
           parsed == JSONparse(rawData)
           data == IF parsed.ok THEN parsed.v ELSE JStr(rawData)
       IN IF scan.evt = JNull /\ scan.dataParts = <<>> THEN usage
          ELSE IF scan.evt = JStr(<<"message_delta">>) /\ isRecord(data)
                  /\ Get(data, "usage") # Undef
               THEN Get(data, "usage") ELSE usage

RECURSIVE SummaryScan(_, _)
SummaryScan(records, usage) ==
  IF records = <<>> THEN usage
  ELSE SummaryScan(Tail(records), SummaryUsageAfterRecord(Head(records), usage))

summarizeAnthropicSSE(sse) == [usage |-> SummaryScan(SplitRecords(sse, <<>>), JNull)]

\* lines.reverse().find(...): the last line that starts with "{" and ends with "}"
LastJsonLine(lines) ==
  LET found == {i \in DOMAIN lines :
                  StartsWithBrace(Head(lines[i])) /\ EndsWithBrace(lines[i][Len(lines[i])])}
  IN IF found = {} THEN <<>>
     ELSE lines[CHOOSE i \in found : \A j \in found : j <= i]

\* .map((line) => line.trim()).filter(Boolean)
TrimmedNonEmpty(lines) ==
  SelectSeq([i \in DOMAIN lines |-> Trim(lines[i])], LAMBDA line : line # <<>>)

parseStreamingResponse(fullResponse) ==
  CHOOSE final \in
    {IF lastJsonLine = <<>> THEN JNull
     ELSE IF JSONparse(lastJsonLine).ok THEN JSONparse(lastJsonLine).v ELSE JNull :
       lastJsonLine \in {LastJsonLine(TrimmedNonEmpty(SplitLines(fullResponse, <<>>)))}} :
    TRUE

(***************************************************************************)
(* Bounds and the modelled traffic                                         *)
(***************************************************************************)
MaxCaptures == 2
MaxObservers == 1
MaxDbFaults == 2

MaxRecords == 2
MaxClears == 2
MaxRows == 3
MaxLines == 3

\* LIMIT 100 of selectRecentRequests
RECENT_LIMIT == 100

Captures == 1..MaxCaptures
Observers == 1..MaxObservers

WEBSOCKET_READY_STATE_OPEN == 1
READY_STATE_CLOSING == 2
READY_STATE_CLOSED == 3

\* the inbound calls: req.headers and req.body
HeadersWithKey(k) ==
  JObj(("x-api-key" :> JStr(<<k>>)) @@ ("anthropic-version" :> JStr(<<"2023-06-01">>)))
InboundHeaders == {HeadersWithKey("sk-1"), HeadersWithKey("sk-2")}
BodyRegular == JObj([model |-> JStr(<<"claude">>), max_tokens |-> JNum(64),
                     messages |-> JArr(<<JObj([role |-> JStr(<<"user">>)])>>)])
BodyStream == JObj([model |-> JStr(<<"claude">>), max_tokens |-> JNum(64),
                    messages |-> JArr(<<JObj([role |-> JStr(<<"user">>)])>>),
                    stream |-> JBool(TRUE)])
InboundBodies == {BodyRegular, BodyStream}

\* accumulated event streams of up to MaxRecords records, each with an event name (or
\* none) and one data line
SseEventNames == {"message_start", "message_delta", "content_block_delta", "none"}
SseDataDocs == {"{start}", "{delta}", "{final}", "{err}", "{bad}"}
SseRecordKinds == [evt : SseEventNames, doc : SseDataDocs]
SseRecordLists == UNION {[1..n -> SseRecordKinds] : n \in 0..MaxRecords}
RenderRecord(r) ==
  (IF r.evt = "none" THEN <<>> ELSE <<"event:", "SP", r.evt, "NL">>)
    \o <<"data:", "SP", r.doc, "NL", "NL">>
RECURSIVE RenderSse(_)
RenderSse(rs) == IF rs = <<>> THEN <<>> ELSE RenderRecord(Head(rs)) \o RenderSse(Tail(rs))

\* what upstream answers: a status and the chunks of its body
SseStream ==
  << <<"event:", "SP", "message_start", "NL", "data:", "SP", "{start}", "NL", "NL">>,
     <<"event:", "SP", "message_delta", "NL", "data:", "SP", "{delta}", "NL", "NL">> >>
Utf8Stream ==
  << <<"event:", "SP", "content_block_delta", "NL", "data:", "SP", "LEAD">>,
     <<"CONT", "NL", "NL">> >>
JsonLineStream == << <<"{final}", "NL">> >>
RegularReplies ==
  { [status |-> 200, chunks |-> << <<"{msg}">> >>],
    [status |-> 429, chunks |-> << <<"{err}">> >>],
    [status |-> 502, chunks |-> << <<"<html>">> >>] }
StreamReplies ==
  { [status |-> 200, chunks |-> SseStream],
    [status |-> 200, chunks |-> Utf8Stream],
    [status |-> 429, chunks |-> << <<"{err}">> >>] }

\* a stream whose final JSON line is a message with tool_use blocks
ToolUseStream == << <<"{msg}", "NL">> >>
StreamRepliesAll ==
  StreamReplies \cup {[status |-> 200, chunks |-> JsonLineStream],
                      [status |-> 200, chunks |-> ToolUseStream]}

RECURSIVE Concat(_)
Concat(chunks) == IF chunks = <<>> THEN <<>> ELSE Head(chunks) \o Concat(Tail(chunks))

(***************************************************************************)
(* State                                                                   *)
(***************************************************************************)
VARIABLES
  impl,              \* which copy of the proxy runs
  currentSessionId,  \* this.currentSessionId
  sessions,          \* table sessions, in insertion order
  requests,          \* table requests
  responses,         \* table responses
  tool_calls,        \* table tool_calls
  clients,           \* this.clients
  readyState,        \* readyState of each observer's socket (0: never connected)
  closed,            \* the observers whose close event has been handled
  inbox,             \* what each observer has been sent
  feed,              \* every message handed to broadcast(), serialized, in order
  pc,                \* where each capture's handler stands
  req,               \* the inbound call of each capture
  calls,             \* the upstream calls issued for each capture
  upstream,          \* what upstream has answered so far for each capture
  plan,              \* the chunks upstream has still to send
  fullResponse,      \* the streaming handler's accumulation buffer
  res,               \* the response object of each capture: what the caller gets
  faultsLeft,        \* how many more store writes may fail
  threw,             \* the store writes of each capture that threw
  sessionCount,      \* how many session ids uuidv4() has handed to createSession
  clearRes,          \* the replies POST /api/clear has given, in order
  arg,               \* the argument handed to the function under study
  result,            \* what the proxy's function returned for arg
  uiResult           \* what the UI's function returned for arg

vars == <<impl, currentSessionId, sessions, requests, responses, tool_calls, clients,
          readyState, closed, inbox, feed, pc, req, calls, upstream, plan, fullResponse, res,
          faultsLeft, threw, sessionCount, clearRes, arg, result, uiResult>>

clearVars == <<sessionCount, clearRes>>
fnVars == <<arg, result, uiResult>>

\* createSession(): uuidv4(), the n-th session identifier
SessionId(n) == [t |-> "string", uuid |-> <<"session", n>>]

NoReq == [headers |-> Undef, body |-> Undef]
NoUpstream == [outcome |-> "pending", status |-> 0, chunks |-> <<>>]
FreshRes == [statusCode |-> 200, contentType |-> Undef, headersSent |-> FALSE,
             chunks |-> <<>>, body |-> Undef, finished |-> FALSE, replies |-> 0,
             destroyed |-> FALSE]

\* mutant: the totals have no DEFAULT 0 and start as NULL
SessionRow_NoDefaults(id) ==
  [id |-> id, ended_at |-> JNull, total_requests |-> JNull, total_tokens |-> JNull]

\* the row insertSession writes: id and started_at are given, the other columns take
\* their defaults (started_at, a clock reading, and project_name are left out)
SessionRow(id) ==
  [id |-> id, ended_at |-> JNull, total_requests |-> JNum(0), total_tokens |-> JNum(0)]

InitState ==
  /\ impl \in {"part_000", "proxy_server"}
  /\ currentSessionId = SessionId(1)
  /\ sessions = <<SessionRow(SessionId(1))>>
  /\ sessionCount = 1
  /\ clearRes = <<>>
  /\ requests = <<>>
  /\ responses = <<>>
  /\ tool_calls = <<>>
  /\ clients = {}
  /\ readyState = [o \in Observers |-> 0]
  /\ closed = {}
  /\ inbox = [o \in Observers |-> <<>>]
  /\ feed = <<>>
  /\ pc = [c \in Captures |-> "idle"]
  /\ req = [c \in Captures |-> NoReq]
  /\ calls = [c \in Captures |-> <<>>]
  /\ upstream = [c \in Captures |-> NoUpstream]
  /\ plan = [c \in Captures |-> <<>>]
  /\ fullResponse = [c \in Captures |-> <<>>]
  /\ res = [c \in Captures |-> FreshRes]
  /\ threw = [c \in Captures |-> {}]

\* no function is under study
NoCall == arg = Undef /\ result = Undef /\ uiResult = Undef

\* the store is reliable
Init == InitState /\ NoCall /\ faultsLeft = 0

\* up to MaxDbFaults store writes throw
InitFaulty == InitState /\ NoCall /\ faultsLeft = MaxDbFaults

(***************************************************************************)
(* Broadcast Hub                                                           *)
(***************************************************************************)
\* JSON.stringify(message): properties whose value is undefined are left out
StripUndefined(data) == [k \in {k \in DOMAIN data : data[k] # Undef} |-> data[k]]
Serialize(message) ==
  IF "data" \in DOMAIN message
  THEN [type |-> message.type, data |-> StripUndefined(message.data)]
  ELSE message

RECURSIVE SerializeAll(_)
SerializeAll(messages) ==
  IF messages = <<>> THEN <<>>
  ELSE <<Serialize(Head(messages))>> \o SerializeAll(Tail(messages))

\* mutant: the messages are sent to every client, whatever the state of its socket
broadcast_Unchecked(messages) ==
  /\ inbox' = [o \in Observers |->
                 IF o \in clients THEN inbox[o] \o SerializeAll(messages) ELSE inbox[o]]
  /\ feed' = feed \o SerializeAll(messages)

\* mutant: the messages of one handler step are sent last first
broadcast_LastFirst(messages) ==
  LET reversed == [i \in DOMAIN messages |-> messages[Len(messages) + 1 - i]]
  IN /\ inbox' = [o \in Observers |->
                    IF o \in clients /\ readyState[o] = WEBSOCKET_READY_STATE_OPEN
                    THEN inbox[o] \o SerializeAll(reversed) ELSE inbox[o]]
     /\ feed' = feed \o SerializeAll(reversed)

\* broadcast(message) for each of messages in turn: sent to every client whose
\* socket is open
broadcast(messages) ==
  /\ inbox' = [o \in Observers |->
                 IF o \in clients /\ readyState[o] = WEBSOCKET_READY_STATE_OPEN
                 THEN inbox[o] \o SerializeAll(messages) ELSE inbox[o]]
  /\ feed' = feed \o SerializeAll(messages)

\* mutant: a new client is not greeted
Greeting_None == <<>>

\* ws.send(JSON.stringify({type: "connected", ...})) in the connection handler
Greeting ==
  <<Serialize([type |-> "connected",
               data |-> [message |-> JStr(<<"Connected to Claude Code Tracer">>)]])>>

\* mutant: a client that connects is sent what was published before
Connect_Replays(o) ==
  /\ readyState[o] = 0
  /\ clients' = clients \cup {o}
  /\ readyState' = [readyState EXCEPT ![o] = WEBSOCKET_READY_STATE_OPEN]
  /\ inbox' = [inbox EXCEPT ![o] = @ \o Greeting \o feed]
  /\ UNCHANGED <<closed, clearVars, fnVars, impl, currentSessionId, sessions, requests, responses, tool_calls, feed,
                 pc, req, calls, upstream, plan, fullResponse, res, faultsLeft, threw>>

\* wss.on("connection"): the client is added and greeted
Connect(o) ==
  /\ readyState[o] = 0
  /\ clients' = clients \cup {o}
  /\ readyState' = [readyState EXCEPT ![o] = WEBSOCKET_READY_STATE_OPEN]
  /\ inbox' = [inbox EXCEPT ![o] = @ \o Greeting]
  /\ UNCHANGED <<closed, clearVars, fnVars, impl, currentSessionId, sessions, requests, responses, tool_calls, feed,
                 pc, req, calls, upstream, plan, fullResponse, res, faultsLeft, threw>>

\* the socket starts closing or drops: it is no longer open, its close event is pending
SocketCloses(o) ==
  /\ readyState[o] = WEBSOCKET_READY_STATE_OPEN
  /\ \E s \in {READY_STATE_CLOSING, READY_STATE_CLOSED} :
       readyState' = [readyState EXCEPT ![o] = s]
  /\ UNCHANGED <<closed, clearVars, fnVars, impl, currentSessionId, sessions, requests, responses, tool_calls, clients,
                 inbox, feed, pc, req, calls, upstream, plan, fullResponse, res, faultsLeft, threw>>

\* mutant: the close handler leaves the client in the set
OnClose_Leaks(o) ==
  /\ o \in clients
  /\ readyState[o] \in {READY_STATE_CLOSING, READY_STATE_CLOSED}
  /\ closed' = closed \cup {o}
  /\ readyState' = [readyState EXCEPT ![o] = READY_STATE_CLOSED]
  /\ UNCHANGED <<clearVars, fnVars, impl, currentSessionId, sessions, requests, responses, tool_calls,
                 clients, inbox, feed, pc, req, calls, upstream, plan, fullResponse, res,
                 faultsLeft, threw>>

\* ws.on("close"): the client is removed
OnClose(o) ==
  /\ o \in clients
  /\ readyState[o] \in {READY_STATE_CLOSING, READY_STATE_CLOSED}
  /\ clients' = clients \ {o}
  /\ closed' = closed \cup {o}
  /\ readyState' = [readyState EXCEPT ![o] = READY_STATE_CLOSED]
  /\ UNCHANGED <<clearVars, fnVars, impl, currentSessionId, sessions, requests, responses, tool_calls,
                 inbox, feed, pc, req, calls, upstream, plan, fullResponse, res, faultsLeft, threw>>

(***************************************************************************)
(* Capture Pipeline                                                        *)
(***************************************************************************)
\* uuidv4(): the n-th identifier of its kind
RequestId(c) == [t |-> "string", uuid |-> <<"request", c>>]
ResponseId(n) == [t |-> "string", uuid |-> <<"response", n>>]

\* process.env.ANTHROPIC_API_KEY
EnvApiKey == JStr(<<"sk-env">>)
ANTHROPIC_DEFAULT_VERSION == JStr(<<"2023-06-01">>)

buildAnthropicHeaders(requestHeaders) ==
  JObj(("x-api-key" :> OrElse(Get(requestHeaders, "x-api-key"), EnvApiKey))
       @@ ("anthropic-version" :> OrElse(Get(requestHeaders, "anthropic-version"),
                                         ANTHROPIC_DEFAULT_VERSION))
       @@ ("content-type" :> JStr(<<"application/json">>)))

\* fetch(ANTHROPIC_API_URL, {method, headers, body})
UpstreamCall(headers, body) ==
  [method |-> "POST", headers |-> buildAnthropicHeaders(headers), body |-> JSONstringify(body)]

\* a store write may throw while the fault budget lasts
WriteOutcomes == IF faultsLeft > 0 THEN {TRUE, FALSE} ELSE {TRUE}

\* the foreign keys of the schema, which node:sqlite enforces: a request row needs
\* the row of its session, a response or tool-call row the row of its request
SessionStored == \E i \in DOMAIN sessions : sessions[i].id = currentSessionId
\* mutant: the foreign key of responses and tool_calls is not enforced
RequestStored_Unchecked(c) == TRUE

RequestStored(c) == \E i \in DOMAIN requests : requests[i].id = RequestId(c)

\* mutant: the row carries the session id read when the proxy started
RequestRow_FirstSession(c, headers, body) ==
  [id |-> RequestId(c), session_id |-> SessionId(1), method |-> "POST",
   endpoint |-> "/v1/messages", headers |-> JNull, body |-> JSONstringify(body)]

\* the row insertRequest.run(...) writes
RequestRow(c, headers, body) ==
  IF impl = "part_000"
  THEN [id |-> RequestId(c), session_id |-> currentSessionId, method |-> "POST",
        endpoint |-> "/v1/messages", headers |-> JNull, body |-> JSONstringify(body),
        stream |-> IF Truthy(OptGet(body, "stream")) THEN 1 ELSE 0]
  ELSE [id |-> RequestId(c), session_id |-> currentSessionId, method |-> "POST",
        endpoint |-> "/v1/messages", headers |-> JSONstringify(headers),
        body |-> JSONstringify(body)]

\* mutant: the "request" message also carries req.headers
RequestEvent_WithHeaders(c, headers, body) ==
  [type |-> "request",
   data |-> [id |-> RequestId(c), headers |-> headers, model |-> OptGet(body, "model"),
             messages |-> OptGet(body, "messages"), tools |-> OptGet(body, "tools"),
             temperature |-> OptGet(body, "temperature"),
             max_tokens |-> OptGet(body, "max_tokens")]
            @@ (IF impl = "part_000" THEN [stream |-> OptGet(body, "stream")] ELSE <<>>)]

\* the "request" message
RequestEvent(c, headers, body) ==
  [type |-> "request",
   data |-> [id |-> RequestId(c), model |-> OptGet(body, "model"),
             messages |-> OptGet(body, "messages"), tools |-> OptGet(body, "tools"),
             temperature |-> OptGet(body, "temperature"),
             max_tokens |-> OptGet(body, "max_tokens")]
            @@ (IF impl = "part_000" THEN [stream |-> OptGet(body, "stream")] ELSE <<>>)]

\* mutant: the "request" message is published inside the try block, after the insert
RequestMessages_IfStored(c, headers, body, stored) ==
  IF stored THEN <<RequestEvent(c, headers, body)>> ELSE <<>>

\* the messages the route handler publishes after its try/catch around the insert,
\* whether the insert went through (stored) or threw
RequestMessages(c, headers, body, stored) == <<RequestEvent(c, headers, body)>>

\* res.status(code).json(v)
SendJson(r, code, v) ==
  [r EXCEPT !.statusCode = code,
            !.contentType = IF @ = Undef THEN JStr(<<"application/json">>) ELSE @,
            !.headersSent = TRUE, !.body = JSONstringify(v), !.finished = TRUE,
            !.replies = @ + 1]

\* res.write(text): nothing reaches a caller whose connection is gone, and nothing
\* is thrown
Write(r, text) ==
  IF r.destroyed THEN r ELSE [r EXCEPT !.headersSent = TRUE, !.chunks = Append(@, text)]

\* res.end()
End(r) == [r EXCEPT !.headersSent = TRUE, !.finished = TRUE, !.replies = @ + 1]

ProxyError == JObj([error |-> JStr(<<"Proxy error">>), details |-> JStr(<<"message">>)])

IsStreaming(body) == Truthy(OptGet(body, "stream"))

\* app.post("/v1/messages"): the request row, the "request" message, and the handler
\* for the body's stream flag up to its await of fetch
PostMessages(c, headers, body) ==
  /\ pc[c] = "idle"
  /\ \A d \in Captures : d < c => pc[d] # "idle"
  /\ \E stored \in (IF SessionStored THEN WriteOutcomes ELSE {FALSE}) :
       /\ requests' = IF stored THEN Append(requests, RequestRow(c, headers, body))
                      ELSE requests
       /\ faultsLeft' = IF stored \/ ~SessionStored THEN faultsLeft ELSE faultsLeft - 1
       /\ threw' = [threw EXCEPT ![c] = IF stored THEN @ ELSE @ \cup {"request"}]
       /\ broadcast(RequestMessages(c, headers, body, stored))
  /\ req' = [req EXCEPT ![c] = [headers |-> headers, body |-> body]]
  /\ res' = [res EXCEPT ![c] = IF IsStreaming(body)
                               THEN [@ EXCEPT !.contentType = JStr(<<"text/event-stream">>)]
                               ELSE @]
  /\ calls' = [calls EXCEPT ![c] = Append(@, UpstreamCall(headers, body))]
  /\ pc' = [pc EXCEPT ![c] = "fetch"]
  /\ UNCHANGED <<closed, clearVars, fnVars, impl, currentSessionId, sessions, responses, tool_calls, clients,
                 readyState, upstream, plan, fullResponse>>

\* fetch rejects: the catch of the route handler
FetchRejects(c) ==
  /\ pc[c] = "fetch"
  /\ upstream' = [upstream EXCEPT ![c].outcome = "failed"]
  /\ res' = [res EXCEPT ![c] = SendJson(@, 500, ProxyError)]
  /\ pc' = [pc EXCEPT ![c] = "done"]
  /\ UNCHANGED <<closed, clearVars, fnVars, impl, currentSessionId, sessions, requests, responses, tool_calls, clients,
                 readyState, inbox, feed, req, calls, plan, fullResponse, faultsLeft, threw>>

\* the tool_use blocks of responseData.content, in order
RECURSIVE ToolUsesOf(_)
ToolUsesOf(blocks) ==
  IF blocks = <<>> THEN <<>>
  ELSE IF OptGet(Head(blocks), "type") = JStr(<<"tool_use">>)
       THEN <<Head(blocks)>> \o ToolUsesOf(Tail(blocks))
  ELSE ToolUsesOf(Tail(blocks))

ToolUses(responseData) ==
  IF OptGet(responseData, "content").t = "array"
  THEN ToolUsesOf(OptGet(responseData, "content").a) ELSE <<>>

\* content.input ?? null
Nullish(v, d) == IF v.t \in {"undefined", "null"} THEN d ELSE v

ToolCallRow(c, content, n) ==
  [id |-> n, request_id |-> RequestId(c), tool_name |-> Get(content, "name"),
   input |-> JSONstringify(Nullish(Get(content, "input"), JNull)), output |-> JNull]

ToolCallEvent(c, content) ==
  [type |-> "tool_call",
   data |-> [requestId |-> RequestId(c), toolName |-> Get(content, "name"),
             input |-> Get(content, "input")]]

\* the response headers upstream sent, as Object.fromEntries(headers.entries())
UpstreamResponseHeaders == JObj(("content-type" :> JStr(<<"application/json">>)))

\* the row handleRegularRequest inserts
ResponseRowFull(c, n, status, responseData) ==
  IF impl = "part_000"
  THEN [id |-> ResponseId(n), request_id |-> RequestId(c), status |-> status,
        headers |-> JNull, body |-> JSONstringify(responseData),
        tokens_used |-> calculateTokens(OptGet(responseData, "usage"))]
  ELSE [id |-> ResponseId(n), request_id |-> RequestId(c), status |-> status,
        headers |-> JSONstringify(UpstreamResponseHeaders),
        body |-> JSONstringify(responseData),
        tokens_used |-> OrElse(OptGet(OptGet(responseData, "usage"), "output_tokens"),
                               JNum(0))]

\* the "response" message of handleRegularRequest
ResponseEventFull(c, responseData) ==
  IF impl = "part_000"
  THEN [type |-> "response",
        data |-> [requestId |-> RequestId(c), response |-> responseData,
                  tokensUsedTotal |-> calculateTokens(OptGet(responseData, "usage"))]]
  ELSE [type |-> "response",
        data |-> [requestId |-> RequestId(c), response |-> responseData,
                  tokensUsed |-> OptGet(responseData, "usage")]]

\* mutant: the messages of the tool_use blocks are sent last block first
ToolEvents_Reversed(c, tools, k) == [i \in 1..k |-> ToolCallEvent(c, tools[k + 1 - i])]

\* the rows and messages of extractAndStoreToolCalls for the first k tool_use blocks
ToolRows(c, tools, k) == [i \in 1..k |-> ToolCallRow(c, tools[i], Len(tool_calls) + i)]
ToolEvents(c, tools, k) == [i \in 1..k |-> ToolCallEvent(c, tools[i])]

\* the writes of handleRegularRequest are numbered 1 (the response row), 2.. (the
\* tool-call rows); f is the first one that throws, f = n + 2 when none does
FailPoints(c, n) ==
  IF ~RequestStored(c) THEN {1} ELSE IF faultsLeft > 0 THEN 1..(n + 2) ELSE {n + 2}

\* mutant: a reply whose status is not 2xx is thrown as an error
UpstreamThrows_OnStatus(reply, parsed) == ~parsed.ok \/ reply.status >= 300

\* await anthropicResponse.json() throws when the body is not JSON; the status of the
\* reply is not looked at
UpstreamThrows(reply, parsed) == ~parsed.ok

\* mutant: the store error is not caught and reaches the catch of the route handler
RegularOutcome_Uncaught(r, status, responseData, storeThrew) ==
  IF storeThrew THEN SendJson(r, 500, ProxyError) ELSE SendJson(r, status, responseData)

\* what the caller gets from handleRegularRequest: a store error was caught before
RegularOutcome(r, status, responseData, storeThrew) == SendJson(r, status, responseData)

\* handleRegularRequest after fetch resolved with reply: anthropicResponse.json(),
\* the response row, the tool calls, the "response" message, the reply to the caller
RegularReply(c, reply) ==
  /\ pc[c] = "fetch"
  /\ ~IsStreaming(req[c].body)
  /\ upstream' = [upstream EXCEPT ![c] =
                    [outcome |-> "responded", status |-> reply.status,
                     chunks |-> reply.chunks]]
  /\ pc' = [pc EXCEPT ![c] = "done"]
  /\ \E parsed \in {JSONparse(Concat(reply.chunks))} :
        IF UpstreamThrows(reply, parsed)
        THEN \* the catch of the route handler
             /\ res' = [res EXCEPT ![c] = SendJson(@, 500, ProxyError)]
             /\ UNCHANGED <<responses, tool_calls, inbox, feed, faultsLeft, threw>>
        ELSE \E responseData \in {parsed.v} : \E tools \in {ToolUses(responseData)} :
             \E n \in {Len(tools)} :
                \E f \in FailPoints(c, n) :
                  \E k \in {IF f = 1 THEN 0 ELSE IF f <= n + 1 THEN f - 2 ELSE n} :
                     /\ responses' =
                          IF f > 1
                          THEN Append(responses,
                                      ResponseRowFull(c, Len(responses) + 1,
                                                      reply.status, responseData))
                          ELSE responses
                     /\ tool_calls' = tool_calls \o ToolRows(c, tools, k)
                     /\ faultsLeft' = IF f <= n + 1 /\ RequestStored(c)
                                      THEN faultsLeft - 1 ELSE faultsLeft
                     /\ threw' = [threw EXCEPT ![c] =
                                    IF f = 1 THEN @ \cup {"response"}
                                    ELSE IF f <= n + 1 THEN @ \cup {"tool_call"} ELSE @]
                     /\ broadcast(ToolEvents(c, tools, k)
                                  \o <<ResponseEventFull(c, responseData)>>)
                     /\ res' = [res EXCEPT ![c] =
                                  RegularOutcome(@, reply.status, responseData, f <= n + 1)]
  /\ UNCHANGED <<closed, clearVars, fnVars, impl, currentSessionId, sessions, requests, clients, readyState, req,
                 calls, plan, fullResponse>>

\* handleStreamingRequest after fetch resolved with reply: the data and end handlers
\* are registered on the body
StreamReply(c, reply) ==
  /\ pc[c] = "fetch"
  /\ IsStreaming(req[c].body)
  /\ upstream' = [upstream EXCEPT ![c] =
                    [outcome |-> "responded", status |-> reply.status, chunks |-> <<>>]]
  /\ plan' = [plan EXCEPT ![c] = reply.chunks]
  /\ pc' = [pc EXCEPT ![c] = "streaming"]
  /\ UNCHANGED <<closed, clearVars, fnVars, impl, currentSessionId, sessions, requests, responses, tool_calls, clients,
                 readyState, inbox, feed, req, calls, fullResponse, res, faultsLeft, threw>>

StreamChunkEvent(c, chunkStr) ==
  [type |-> "stream_chunk", data |-> [requestId |-> RequestId(c), chunk |-> JStr(chunkStr)]]

\* mutant: one buffer shared by all calls of handleStreamingRequest
BufferOf_Shared(c) == 1

\* let fullResponse = "": each call of handleStreamingRequest has a buffer of its own
BufferOf(c) == c

\* mutant: the data handler stops accumulating once the caller is gone
Accumulate_WhileConnected(c, chunkStr) ==
  IF res[c].destroyed THEN fullResponse[BufferOf(c)]
  ELSE fullResponse[BufferOf(c)] \o chunkStr

\* fullResponse += chunkStr
Accumulate(c, chunkStr) == fullResponse[BufferOf(c)] \o chunkStr

\* reader.on("data")
StreamData(c) ==
  /\ pc[c] = "streaming"
  /\ plan[c] # <<>>
  /\ LET chunk == Head(plan[c])
         chunkStr == BufferToString(chunk)
     IN /\ upstream' = [upstream EXCEPT ![c].chunks = Append(@, chunk)]
        /\ fullResponse' = [fullResponse EXCEPT ![BufferOf(c)] = Accumulate(c, chunkStr)]
        /\ res' = [res EXCEPT ![c] = Write(@, chunkStr)]
        /\ IF impl = "part_000" THEN UNCHANGED <<inbox, feed>>
           ELSE broadcast(<<StreamChunkEvent(c, chunkStr)>>)
  /\ plan' = [plan EXCEPT ![c] = Tail(@)]
  /\ UNCHANGED <<closed, clearVars, fnVars, impl, currentSessionId, sessions, requests, responses, tool_calls, clients,
                 readyState, pc, req, calls, faultsLeft, threw>>

\* the row the end handler inserts
ResponseRowStream(c, n, text, tokensTotal) ==
  IF impl = "part_000"
  THEN [id |-> ResponseId(n), request_id |-> RequestId(c), status |-> 200,
        headers |-> JNull, body |-> JStr(text), tokens_used |-> tokensTotal]
  ELSE [id |-> ResponseId(n), request_id |-> RequestId(c), status |-> 200,
        headers |-> JNull, body |-> JStr(text), tokens_used |-> JNull]

\* the "response" message of the end handler; stored says whether the insert went through
ResponseEventStream(c, text, stored) ==
  CHOOSE message \in
    {IF impl = "part_000"
     THEN [type |-> "response",
           data |-> [requestId |-> RequestId(c),
                     response |-> OrElse(parsedFinal, JStr(text)),
                     tokensUsedTotal |->
                       calculateTokens(IF stored
                                       THEN OrElse(OptGet(parsedFinal, "usage"), sseUsage)
                                       ELSE sseUsage)]]
     ELSE [type |-> "response",
           data |-> [requestId |-> RequestId(c),
                     response |-> OrElse(parsedFinal, JStr(text)),
                     tokensUsed |-> OptGet(parsedFinal, "usage")]] :
       sseUsage \in {extractUsageFromSSE(text)},
       parsedFinal \in {parseStreamingResponse(text)}} :
    TRUE

\* the total the end handler stores (part_000)
StreamTokensTotal(text) ==
  CHOOSE total \in
    {calculateTokens(OrElse(OptGet(parsedFinal, "usage"), sseUsage)) :
       sseUsage \in {extractUsageFromSSE(text)},
       parsedFinal \in {parseStreamingResponse(text)}} :
    TRUE

\* mutant: the try block broadcasts before its insert, the catch block once more
StreamEndMessages_Twice(c, text, stored) ==
  IF stored THEN <<ResponseEventStream(c, text, TRUE)>>
  ELSE <<ResponseEventStream(c, text, TRUE), ResponseEventStream(c, text, FALSE)>>

\* mutant: the end handler also publishes the tool_use blocks of the final object
StreamEndMessages_WithTools(c, text, stored) ==
  [i \in DOMAIN ToolUses(parseStreamingResponse(text)) |->
     ToolCallEvent(c, ToolUses(parseStreamingResponse(text))[i])]
    \o <<ResponseEventStream(c, text, stored)>>

\* the messages the end handler broadcasts: one from the try block when the insert
\* went through, one from the catch block when it threw
StreamEndMessages(c, text, stored) == <<ResponseEventStream(c, text, stored)>>

\* reader.on("end")
StreamEnd(c) ==
  /\ pc[c] = "streaming"
  /\ plan[c] = <<>>
  /\ \E stored \in (IF RequestStored(c) THEN WriteOutcomes ELSE {FALSE}) :
     \E text \in {fullResponse[BufferOf(c)]} :
     \E tokensTotal \in {StreamTokensTotal(text)} :
     \E messages \in {StreamEndMessages(c, text, stored)} :
       /\ responses' =
            IF stored
            THEN Append(responses,
                        ResponseRowStream(c, Len(responses) + 1, text, tokensTotal))
            ELSE responses
       /\ faultsLeft' = IF stored \/ ~RequestStored(c) THEN faultsLeft ELSE faultsLeft - 1
       /\ threw' = [threw EXCEPT ![c] = IF stored THEN @ ELSE @ \cup {"response"}]
       /\ broadcast(messages)
  /\ res' = [res EXCEPT ![c] = End(@)]
  /\ pc' = [pc EXCEPT ![c] = "done"]
  /\ UNCHANGED <<closed, clearVars, fnVars, impl, currentSessionId, sessions, requests, tool_calls, clients,
                 readyState, req, calls, upstream, plan, fullResponse>>

\* the body stream of the upstream reply emits "error" (the connection broke while
\* the reply was read): the handler has registered listeners for "data" and "end"
\* only, so the error is thrown out of the emitter and ends the process, or, where
\* the stream only closes, no handler of the capture runs again
StreamFails(c) ==
  /\ pc[c] = "streaming"
  /\ upstream' = [upstream EXCEPT ![c].outcome = "failed"]
  /\ \E outcome \in {"crashed", "stalled"} : pc' = [pc EXCEPT ![c] = outcome]
  /\ UNCHANGED <<closed, clearVars, fnVars, impl, currentSessionId, sessions, requests, responses,
                 tool_calls, clients, readyState, inbox, feed, req, calls, plan,
                 fullResponse, res, faultsLeft, threw>>

\* the caller of a streaming capture closes its connection before the reply has ended;
\* the handler listens for no event of req or res
CallerDisconnects(c) ==
  /\ pc[c] \in {"fetch", "streaming"}
  /\ IsStreaming(req[c].body)
  /\ ~res[c].destroyed
  /\ res' = [res EXCEPT ![c].destroyed = TRUE]
  /\ UNCHANGED <<closed, clearVars, fnVars, impl, currentSessionId, sessions, requests, responses,
                 tool_calls, clients, readyState, inbox, feed, pc, req, calls, upstream,
                 plan, fullResponse, faultsLeft, threw>>

\* the capture pipeline fed with the given inbound calls and upstream replies
Pipeline(H, B, RR, SR) ==
  \/ \E c \in Captures, headers \in H, body \in B : PostMessages(c, headers, body)
  \/ \E c \in Captures : FetchRejects(c)
  \/ \E c \in Captures, reply \in RR : RegularReply(c, reply)
  \/ \E c \in Captures, reply \in SR : StreamReply(c, reply)
  \/ \E c \in Captures : StreamData(c)
  \/ \E c \in Captures : StreamEnd(c)

(***************************************************************************)
(* Trace Store: clear and queries                                          *)
(***************************************************************************)
\* the four tables
Tables == [sessions |-> sessions, requests |-> requests, responses |-> responses,
           tool_calls |-> tool_calls]
EmptyTables == [sessions |-> <<>>, requests |-> <<>>, responses |-> <<>>,
                tool_calls |-> <<>>]

\* the statements of POST /api/clear that can throw, in the order they run
ClearSteps == <<"pragma", "begin", "delete_tool_calls", "delete_responses",
                "delete_requests", "delete_sessions", "commit", "createSession", "vacuum">>
StepNo(step) == CHOOSE i \in DOMAIN ClearSteps : ClearSteps[i] = step

\* the tables as the transaction sees them when the statement failing throws: the
\* DELETE statements before it have run
DeletedBefore(failing) ==
  [sessions |-> sessions,
   requests |-> IF StepNo(failing) > StepNo("delete_requests") THEN <<>> ELSE requests,
   responses |-> IF StepNo(failing) > StepNo("delete_responses") THEN <<>> ELSE responses,
   tool_calls |-> IF StepNo(failing) > StepNo("delete_tool_calls") THEN <<>>
                  ELSE tool_calls]

\* mutant: the catch block does not roll back
Rollback_Skipped(before, now) == now

\* db.exec("ROLLBACK") in the catch block: the open transaction is undone
Rollback(before, now) == before

\* mutant: no message is broadcast after a clear
ClearedMessages_None == <<>>

\* this.broadcast({ type: "cleared" })
ClearedMessages == <<[type |-> "cleared"]>>

\* mutant: "cleared" is published whether or not a statement has thrown
ClearMessages_Always(failing) == ClearedMessages

\* what a call of clear publishes: the broadcast is the last statement of the try
\* block before the reply, reached only when nothing before it threw (VACUUM has a
\* try block of its own)
ClearMessages(failing) ==
  IF failing \in {"none", "vacuum"} THEN ClearedMessages ELSE <<>>

ClearOk == JObj([ok |-> JBool(TRUE)])
ClearFailed == JObj([ok |-> JBool(FALSE), error |-> JStr(<<"Failed to clear traces">>)])

\* the steps at which a call of clear may throw; "none" when it runs through
ClearFailPoints ==
  IF faultsLeft > 0 THEN {"none"} \cup {ClearSteps[i] : i \in DOMAIN ClearSteps}
  ELSE {"none"}

\* app.post("/api/clear")
ClearTraces ==
  /\ Len(clearRes) < MaxClears
  /\ \E failing \in ClearFailPoints :
       /\ faultsLeft' = IF failing = "none" THEN faultsLeft ELSE faultsLeft - 1
       /\ IF failing \in {"none", "vacuum"}
          THEN \* committed, fresh session, VACUUM (a failure of it is ignored)
               /\ sessions' = <<SessionRow(SessionId(sessionCount + 1))>>
               /\ requests' = <<>> /\ responses' = <<>> /\ tool_calls' = <<>>
               /\ currentSessionId' = SessionId(sessionCount + 1)
               /\ sessionCount' = sessionCount + 1
               /\ broadcast(ClearMessages(failing))
               /\ clearRes' = Append(clearRes, [status |-> 200, body |-> JSONstringify(ClearOk)])
          ELSE IF failing = "createSession"
          THEN \* committed; this.currentSessionId is set, then insertSession throws;
               \* the ROLLBACK of the catch block finds no transaction
               /\ sessions' = <<>>
               /\ requests' = <<>> /\ responses' = <<>> /\ tool_calls' = <<>>
               /\ currentSessionId' = SessionId(sessionCount + 1)
               /\ sessionCount' = sessionCount + 1
               /\ broadcast(ClearMessages(failing))
               /\ clearRes' = Append(clearRes, [status |-> 500,
                                                body |-> JSONstringify(ClearFailed)])
          ELSE \* a statement of the transaction throws; the catch block rolls back
               LET after == IF StepNo(failing) >= StepNo("delete_tool_calls")
                            THEN Rollback(Tables, DeletedBefore(failing))
                            ELSE Tables
               IN /\ sessions' = after.sessions
                  /\ requests' = after.requests
                  /\ responses' = after.responses
                  /\ tool_calls' = after.tool_calls
                  /\ UNCHANGED <<currentSessionId, sessionCount>>
                  /\ broadcast(ClearMessages(failing))
                  /\ clearRes' = Append(clearRes, [status |-> 500,
                                                   body |-> JSONstringify(ClearFailed)])
  /\ UNCHANGED <<closed, fnVars, impl, clients, readyState, pc, req, calls, upstream, plan,
                 fullResponse, res, threw>>

\* what GET /api/traces answers: the request rows, latest first, each with its
\* response row (or null) and its tool-call rows
FirstRowFor(table, id) ==
  IF \E i \in DOMAIN table : table[i].request_id = id
  THEN table[CHOOSE i \in DOMAIN table :
               /\ table[i].request_id = id
               /\ \A j \in DOMAIN table : table[j].request_id = id => i <= j]
  ELSE JNull
Traces ==
  [i \in DOMAIN requests |->
     LET trace == requests[Len(requests) + 1 - i]
     IN [request |-> trace,
         response |-> FirstRowFor(responses, trace.id),
         toolCalls |-> SelectSeq(tool_calls, LAMBDA r : r.request_id = trace.id)]]

\* JSON.parse of a stored text
ParseStored(text) ==
  IF "json" \in DOMAIN text THEN [ok |-> TRUE, v |-> text.json] ELSE JSONparse(text.s)

\* safeParseJSON(maybeJSON) of either copy, for a column value that is a text or NULL
safeParseJSON(maybeJSON) ==
  IF impl = "part_000"
  THEN IF ~Truthy(IF "json" \in DOMAIN maybeJSON THEN JBool(TRUE) ELSE maybeJSON) THEN JNull
       ELSE IF maybeJSON.t # "string" THEN maybeJSON
       ELSE IF "s" \in DOMAIN maybeJSON /\ TrimStart(maybeJSON.s) # <<>>
               /\ Head(TrimStart(maybeJSON.s)) = "event:"
            THEN maybeJSON
       ELSE IF ParseStored(maybeJSON).ok THEN ParseStored(maybeJSON).v ELSE maybeJSON
  ELSE IF maybeJSON.t = "null" THEN JNull
       ELSE IF maybeJSON.t = "string" /\ ParseStored(maybeJSON).ok
            THEN ParseStored(maybeJSON).v
       ELSE JNull

\* ORDER BY timestamp DESC: the rows of table latest first; the order of rows with
\* equal timestamps is the engine's choice, here insertion order or its reverse
OrderByTimestampDesc(table, tiesInOrder) ==
  LET n == Len(table)
      Ahead(j, i) ==
        \/ table[j].timestamp > table[i].timestamp
        \/ /\ table[j].timestamp = table[i].timestamp
           /\ IF tiesInOrder THEN j < i ELSE j > i
      rank == [i \in 1..n |-> Cardinality({j \in 1..n : Ahead(j, i)})]
  IN [k \in 1..n |-> table[CHOOSE i \in 1..n : rank[i] = k - 1]]

\* LIMIT k
Limit(rows, k) == SubSeq(rows, 1, IF Len(rows) < k THEN Len(rows) ELSE k)

selectRequestsBySession(sessionId, tiesInOrder) ==
  OrderByTimestampDesc(SelectSeq(requests, LAMBDA r : r.session_id = sessionId), tiesInOrder)
selectRecentRequests(tiesInOrder) ==
  Limit(OrderByTimestampDesc(requests, tiesInOrder), RECENT_LIMIT)
selectToolCallsByRequest(id) == SelectSeq(tool_calls, LAMBDA r : r.request_id = id)

\* mutant: the response row of a trace is looked up without its request id
selectResponsesByRequest_Any(id) == IF responses = <<>> THEN JNull ELSE responses[1]

\* selectResponsesByRequest.get(id): the first matching row, or none
selectResponsesByRequest(id) == FirstRowFor(responses, id)

\* one element of fullTraces
FullTrace(trace) ==
  LET response == selectResponsesByRequest(trace.id)
      toolCalls == selectToolCallsByRequest(trace.id)
      parsedBody == safeParseJSON(trace.body)
  IN [k \in DOMAIN trace |->
        IF k = "body" THEN parsedBody
        ELSE IF k = "stream"
             THEN JBool(trace.stream = 1 \/ OptGet(parsedBody, "stream") = JBool(TRUE))
        ELSE trace[k]]
     @@ [response |-> IF response # JNull
                      THEN [response EXCEPT !.body = safeParseJSON(response.body)]
                      ELSE JNull,
         toolCalls |-> toolCalls]

\* app.get("/api/traces/:sessionId?")
GetTraces(sessionId) ==
  /\ \E tiesInOrder \in BOOLEAN :
       \E traces \in {IF sessionId # Undef
                       THEN selectRequestsBySession(sessionId, tiesInOrder)
                       ELSE selectRecentRequests(tiesInOrder)} :
         result' = [status |-> 200,
                    body |-> [i \in DOMAIN traces |-> FullTrace(traces[i])]]
  /\ arg' = sessionId
  /\ UNCHANGED <<closed, clearVars, uiResult, impl, currentSessionId, sessions, requests,
                 responses, tool_calls, clients, readyState, inbox, feed, pc, req, calls,
                 upstream, plan, fullResponse, res, faultsLeft, threw>>

\* SELECT * FROM sessions ORDER BY started_at DESC: the session rows, latest first
selectSessions == [i \in DOMAIN sessions |-> sessions[Len(sessions) + 1 - i]]

\* mutant: the query waits until no capture is under way
GetSessions_WhenIdle ==
  /\ \A c \in Captures : pc[c] \in {"idle", "done"}
  /\ result' = [status |-> 200, body |-> selectSessions]
  /\ arg' = Undef
  /\ UNCHANGED <<closed, clearVars, uiResult, impl, currentSessionId, sessions, requests,
                 responses, tool_calls, clients, readyState, inbox, feed, pc, req, calls,
                 upstream, plan, fullResponse, res, faultsLeft, threw>>

\* app.get("/api/sessions")
GetSessions ==
  /\ result' = [status |-> 200, body |-> selectSessions]
  /\ arg' = Undef
  /\ UNCHANGED <<closed, clearVars, uiResult, impl, currentSessionId, sessions, requests,
                 responses, tool_calls, clients, readyState, inbox, feed, pc, req, calls,
                 upstream, plan, fullResponse, res, faultsLeft, threw>>

\* the store as earlier captures, of this run and of earlier runs on the same database
\* file, have left it: n request rows, the i-th written by the i-th capture
StoredTimestamp(i, n, clock) ==
  CASE clock = "rising" -> i
    [] clock = "steady" -> (i + 1) \div 2
    [] OTHER -> n + 1 - i
StoredBodies ==
  <<JSONstringify(JsonDocs["{msg}"]), JStr(Concat(SseStream)), JNull, JStr(<<"{bad}">>),
    JStr(<<"{final}", "NL">>), JStr(<<>>), JStr(<<"<html>">>)>>
StoredBody(i) == StoredBodies[(i % Len(StoredBodies)) + 1]
StoredSession(i) == SessionId(i % 2)
StoredRequests(n, clock) ==
  [i \in 1..n |->
     [RequestRow(i, HeadersWithKey("sk-1"),
                 IF StoredBody(i).t = "string" /\ "json" \in DOMAIN StoredBody(i)
                 THEN BodyRegular ELSE BodyStream)
        EXCEPT !.session_id = StoredSession(i)]
     @@ [timestamp |-> StoredTimestamp(i, n, clock)]]
StoredResponses(n) ==
  SelectSeq([i \in 1..n |->
               IF StoredBody(i) = JNull THEN JNull
               ELSE [id |-> ResponseId(i), request_id |-> RequestId(i), status |-> 200,
                     headers |-> JNull, body |-> StoredBody(i), tokens_used |-> JNum(0)]],
            LAMBDA r : r # JNull)
\* the captures whose reply was the buffered message with its tool_use blocks
StoredToolCalls(n) ==
  LET tools == ToolUses(JsonDocs["{msg}"])
      m == Len(tools)
      owners == SelectSeq([i \in 1..n |-> i],
                          LAMBDA i : StoredBody(i) = JSONstringify(JsonDocs["{msg}"]))
  IN [k \in 1..(m * Len(owners)) |->
        LET content == tools[((k - 1) % m) + 1]
        IN [id |-> k, request_id |-> RequestId(owners[((k - 1) \div m) + 1]),
            tool_name |-> Get(content, "name"),
            input |-> JSONstringify(Nullish(Get(content, "input"), JNull)),
            output |-> JNull]]

StoreSizes == (0..MaxRows) \cup {RECENT_LIMIT, RECENT_LIMIT + 1}
SessionArgs == {Undef, SessionId(0), SessionId(1), SessionId(2)}

\* calculateTokens(arg), by the proxy and by the UI
CalculateTokens ==
  /\ result = Undef
  /\ result' = calculateTokens(arg)
  /\ uiResult' = ui_calculateTokens(arg)
  /\ UNCHANGED <<closed, clearVars, arg, impl, currentSessionId, sessions, requests, responses,
                 tool_calls, clients, readyState, inbox, feed, pc, req, calls, upstream,
                 plan, fullResponse, res, faultsLeft, threw>>

\* extractUsageFromSSE over the text of the records arg, and the UI's summary of it
ExtractUsage ==
  /\ result = Undef
  /\ result' = extractUsageFromSSE(RenderSse(arg))
  /\ uiResult' = summarizeAnthropicSSE(RenderSse(arg)).usage
  /\ UNCHANGED <<closed, clearVars, arg, impl, currentSessionId, sessions, requests, responses,
                 tool_calls, clients, readyState, inbox, feed, pc, req, calls, upstream,
                 plan, fullResponse, res, faultsLeft, threw>>

\* the text of arg.records when the stream broke off in its last record: after the
\* record but before the blank line that ends it, inside the data, or after the
\* event line; "whole" when it did not break off
PartialRecord(r, cut) ==
  LET eventLine == IF r.evt = "none" THEN <<>> ELSE <<"event:", "SP", r.evt, "NL">>
  IN CASE cut = "no_separator" -> eventLine \o <<"data:", "SP", r.doc>>
       [] cut = "data_cut" -> eventLine \o <<"data:", "SP", "{bad}">>
       [] OTHER -> eventLine
TruncatedSse(a) ==
  IF a.records = <<>> \/ a.cut = "whole" THEN RenderSse(a.records)
  ELSE RenderSse(SubSeq(a.records, 1, Len(a.records) - 1))
         \o PartialRecord(a.records[Len(a.records)], a.cut)

\* extractUsageFromSSE and the UI's parseSSEToEvents over the text of arg
ScanTruncated ==
  /\ result = Undef
  /\ result' = extractUsageFromSSE(TruncatedSse(arg))
  /\ uiResult' = parseSSEToEvents(TruncatedSse(arg))
  /\ UNCHANGED <<closed, clearVars, arg, impl, currentSessionId, sessions, requests, responses,
                 tool_calls, clients, readyState, inbox, feed, pc, req, calls, upstream,
                 plan, fullResponse, res, faultsLeft, threw>>

\* parseStreamingResponse over the text whose lines are arg
ParseStreaming ==
  /\ result = Undef
  /\ result' = parseStreamingResponse(JoinLines(arg))
  /\ UNCHANGED <<closed, clearVars, arg, uiResult, impl, currentSessionId, sessions, requests,
                 responses, tool_calls, clients, readyState, inbox, feed, pc, req, calls,
                 upstream, plan, fullResponse, res, faultsLeft, threw>>

\* the observers
Hub ==
  \/ \E o \in Observers : Connect(o)
  \/ \E o \in Observers : SocketCloses(o)
  \/ \E o \in Observers : OnClose(o)

\* concurrent captures over a reliable store
Next == Pipeline({HeadersWithKey("sk-1")}, InboundBodies, RegularReplies, StreamReplies)
Spec == Init /\ [][Next]_vars

\* one capture at a time, with either API key, over a store whose writes may throw
PipelineIdle == \A c \in Captures : pc[c] \in {"idle", "done"}
NextFaulty ==
  \/ \E c \in Captures, headers \in InboundHeaders, body \in InboundBodies :
       PipelineIdle /\ PostMessages(c, headers, body)
  \/ \E c \in Captures : FetchRejects(c)
  \/ \E c \in Captures, reply \in RegularReplies : RegularReply(c, reply)
  \/ \E c \in Captures, reply \in StreamRepliesAll : StreamReply(c, reply)
  \/ \E c \in Captures : StreamData(c)
  \/ \E c \in Captures : StreamEnd(c)
SpecFaulty == InitFaulty /\ [][NextFaulty]_vars

\* buffered captures, one at a time, with either API key, watched by observers that
\* come and go
NextHub ==
  \/ \E c \in Captures, headers \in InboundHeaders :
       PipelineIdle /\ PostMessages(c, headers, BodyRegular)
  \/ \E c \in Captures : RegularReply(c, [status |-> 200, chunks |-> << <<"{msg}">> >>])
  \/ Hub
SpecHub == Init /\ [][NextHub]_vars

\* buffered captures that overlap in time, watched by observers that come and go
NextObserved ==
  \/ \E c \in Captures : PostMessages(c, HeadersWithKey("sk-1"), BodyRegular)
  \/ \E c \in Captures : FetchRejects(c)
  \/ \E c \in Captures : RegularReply(c, [status |-> 200, chunks |-> << <<"{msg}">> >>])
  \/ Hub
SpecObserved == Init /\ [][NextObserved]_vars

\* buffered captures, one at a time, and calls of clear at any point of them, over a
\* store whose statements may throw
NextClear ==
  \/ \E c \in Captures :
       PipelineIdle /\ PostMessages(c, HeadersWithKey("sk-1"), BodyRegular)
  \/ \E c \in Captures : RegularReply(c, [status |-> 200, chunks |-> << <<"{msg}">> >>])
  \/ ClearTraces
SpecClear == InitFaulty /\ [][NextClear]_vars

\* streaming captures, one at a time, with callers that disconnect and upstream
\* replies that break off; nothing runs once the process has ended
Crashed == \E c \in Captures : pc[c] = "crashed"
StreamIdle == \A c \in Captures : pc[c] \in {"idle", "done", "stalled"}
UpstreamStep(c) ==
  \/ FetchRejects(c)
  \/ \E reply \in StreamRepliesAll : StreamReply(c, reply)
  \/ StreamData(c)
  \/ StreamEnd(c)
  \/ StreamFails(c)
NextStream ==
  \/ \E c \in Captures :
       ~Crashed /\ StreamIdle /\ PostMessages(c, HeadersWithKey("sk-1"), BodyStream)
  \/ \E c \in Captures : ~Crashed /\ FetchRejects(c)
  \/ \E c \in Captures, reply \in StreamRepliesAll : ~Crashed /\ StreamReply(c, reply)
  \/ \E c \in Captures : ~Crashed /\ StreamData(c)
  \/ \E c \in Captures : ~Crashed /\ StreamEnd(c)
  \/ \E c \in Captures : ~Crashed /\ StreamFails(c)
  \/ \E c \in Captures : ~Crashed /\ CallerDisconnects(c)
SpecStream == Init /\ [][NextStream]_vars

\* what a step of UpstreamStep(c) does to pc and plan: the call is answered or fails,
\* or the reply goes on by a chunk, ends or breaks off
UpstreamActs(c) ==
  /\ ~Crashed
  /\ \/ /\ pc[c] = "fetch"
        /\ \E at \in {"done", "streaming"} : pc' = [pc EXCEPT ![c] = at]
        /\ plan' \in {plan} \cup {[plan EXCEPT ![c] = reply.chunks] : reply \in StreamRepliesAll}
     \/ /\ pc[c] = "streaming" /\ plan[c] # <<>>
        /\ pc' = pc
        /\ plan' = [plan EXCEPT ![c] = Tail(@)]
     \/ /\ pc[c] = "streaming"
        /\ \E at \in {"done", "crashed", "stalled"} : pc' = [pc EXCEPT ![c] = at]
        /\ plan' = plan

\* the same, with an upstream that always goes on: every call it was sent it answers
\* or lets fail, every reply it began it continues, ends or breaks off
SpecStreamLive ==
  SpecStream /\ \A c \in Captures : WF_<<pc, plan>>(UpstreamActs(c))

\* captures of both kinds that overlap in time, a capture starting while at most one
\* other is under way, with one call of clear and one of the sessions query at any
\* point of them
BufferedReply == [status |-> 200, chunks |-> << <<"{msg}">> >>]
StreamedReply == [status |-> 200, chunks |-> << <<"{final}">>, <<"NL">> >>]
Waiting(c) == pc[c] \in {"fetch", "streaming"}
NextConcurrent ==
  \/ \E c \in Captures, body \in InboundBodies :
       /\ \E d \in Captures : \A e \in Captures \ {c, d} : ~Waiting(e)
       /\ PostMessages(c, HeadersWithKey("sk-1"), body)
  \/ \E c \in Captures : RegularReply(c, BufferedReply)
  \/ \E c \in Captures : StreamReply(c, StreamedReply)
  \/ \E c \in Captures : StreamData(c)
  \/ \E c \in Captures : StreamEnd(c)
  \/ clearRes = <<>> /\ ClearTraces
  \/ result = Undef /\ GetSessions
SpecConcurrent == Init /\ [][NextConcurrent]_vars

\* the same, on a database file that may hold the session of an earlier run
InitSessions ==
  /\ impl \in {"part_000", "proxy_server"}
  /\ currentSessionId = SessionId(1)
  /\ sessions \in {<<SessionRow(SessionId(1))>>,
                   <<SessionRow(SessionId(0)), SessionRow(SessionId(1))>>}
  /\ sessionCount = 1
  /\ clearRes = <<>>
  /\ requests = <<>>
  /\ responses = <<>>
  /\ tool_calls = <<>>
  /\ clients = {}
  /\ readyState = [o \in Observers |-> 0]
  /\ closed = {}
  /\ inbox = [o \in Observers |-> <<>>]
  /\ feed = <<>>
  /\ pc = [c \in Captures |-> "idle"]
  /\ req = [c \in Captures |-> NoReq]
  /\ calls = [c \in Captures |-> <<>>]
  /\ upstream = [c \in Captures |-> NoUpstream]
  /\ plan = [c \in Captures |-> <<>>]
  /\ fullResponse = [c \in Captures |-> <<>>]
  /\ res = [c \in Captures |-> FreshRes]
  /\ threw = [c \in Captures |-> {}]
  /\ faultsLeft = 0
  /\ NoCall
SpecSessions == InitSessions /\ [][NextConcurrent]_vars

\* calculateTokens applied to any usage value
InitTokens ==
  InitState /\ faultsLeft = 0 /\ arg \in UsageValues /\ result = Undef /\ uiResult = Undef
NextTokens == CalculateTokens
SpecTokens == InitTokens /\ [][NextTokens]_vars

\* extractUsageFromSSE applied to any accumulated event stream
InitSse ==
  InitState /\ faultsLeft = 0 /\ arg \in SseRecordLists /\ result = Undef
    /\ uiResult = Undef
NextSse == ExtractUsage
SpecSse == InitSse /\ [][NextSse]_vars

\* parseStreamingResponse applied to any accumulated text of up to MaxLines lines: a
\* JSON object, with blanks around it, after an SSE field name, two objects on one
\* line, braces around what is no JSON, a JSON array, an empty line, other text
StreamLines ==
  { <<"{final}">>, <<"{start}">>, <<"SP", "{delta}", "SP">>, <<"data:", "SP", "{delta}">>,
    <<"{start}", "SP", "{final}">>, <<"{bad}">>, <<"[1]">>, <<>>, <<"<html>">> }
StreamLineLists == UNION {[1..n -> StreamLines] : n \in 0..MaxLines}
InitLines ==
  InitState /\ faultsLeft = 0 /\ arg \in StreamLineLists /\ result = Undef
    /\ uiResult = Undef
NextLines == ParseStreaming
SpecLines == InitLines /\ [][NextLines]_vars

\* the two scanners applied to any event stream, whole or broken off
Cuts == {"whole", "no_separator", "data_cut", "event_only"}
InitTruncated ==
  InitState /\ faultsLeft = 0 /\ arg \in [records : SseRecordLists, cut : Cuts]
    /\ result = Undef /\ uiResult = Undef
NextTruncated == ScanTruncated
SpecTruncated == InitTruncated /\ [][NextTruncated]_vars

\* the trace query over any such store
InitQuery ==
  /\ impl \in {"part_000", "proxy_server"}
  /\ currentSessionId = SessionId(1)
  /\ sessions = <<SessionRow(SessionId(0)), SessionRow(SessionId(1))>>
  /\ sessionCount = 1
  /\ clearRes = <<>>
  /\ \E n \in StoreSizes, clock \in {"rising", "steady", "falling"} :
       /\ requests = StoredRequests(n, clock)
       /\ responses = StoredResponses(n)
       /\ tool_calls = StoredToolCalls(n)
  /\ clients = {}
  /\ readyState = [o \in Observers |-> 0]
  /\ closed = {}
  /\ inbox = [o \in Observers |-> <<>>]
  /\ feed = <<>>
  /\ pc = [c \in Captures |-> "idle"]
  /\ req = [c \in Captures |-> NoReq]
  /\ calls = [c \in Captures |-> <<>>]
  /\ upstream = [c \in Captures |-> NoUpstream]
  /\ plan = [c \in Captures |-> <<>>]
  /\ fullResponse = [c \in Captures |-> <<>>]
  /\ res = [c \in Captures |-> FreshRes]
  /\ threw = [c \in Captures |-> {}]
  /\ faultsLeft = 0
  /\ NoCall
NextQuery == \E sessionId \in SessionArgs : GetTraces(sessionId)
SpecQuery == InitQuery /\ [][NextQuery]_vars

(***************************************************************************)
(* Properties                                                              *)
(***************************************************************************)
\* the capture a message belongs to
EventOwner(e) ==
  IF "data" \notin DOMAIN e THEN Undef
  ELSE IF e.type = "request" THEN e.data.id
  ELSE IF "requestId" \in DOMAIN e.data THEN e.data.requestId
  ELSE Undef

\* the indices of the messages of type type that belong to capture c
EventsOf(log, c, type) ==
  {i \in DOMAIN log : log[i].type = type /\ EventOwner(log[i]) = RequestId(c)}

\* the indices of the rows of a table that reference capture c
RowsOf(table, c) == {i \in DOMAIN table : table[i].request_id = RequestId(c)}

\* upstream's body as JSON, and as the text the streaming handler decodes
UpstreamJson(c) == JSONparse(Concat(upstream[c].chunks))
RECURSIVE Decoded(_)
Decoded(chunks) ==
  IF chunks = <<>> THEN <<>> ELSE BufferToString(Head(chunks)) \o Decoded(Tail(chunks))

Responded(c) == pc[c] \in {"streaming", "done"} /\ upstream[c].outcome = "responded"
\* upstream answered and the handler could read the answer
Completed(c) ==
  /\ pc[c] = "done"
  /\ upstream[c].outcome = "responded"
  /\ IsStreaming(req[c].body) \/ UpstreamJson(c).ok

\* C1: at every point of a streaming capture the chunks written to the caller are
\* the chunks received so far from upstream, in order and unchanged
C1_StreamPassthrough ==
  \A c \in Captures :
    Responded(c) /\ IsStreaming(req[c].body) => res[c].chunks = upstream[c].chunks

\* C2: for a buffered capture whose upstream body is JSON, the "response" message
\* carries that body and the stored row's tokens_used is calculateTokens(body.usage)
C2_BufferedResponse ==
  \A c \in Captures :
    Completed(c) /\ ~IsStreaming(req[c].body) =>
      /\ \A i \in EventsOf(feed, c, "response") :
           feed[i].data.response = UpstreamJson(c).v
      /\ \A i \in RowsOf(responses, c) :
           responses[i].tokens_used =
             calculateTokens(OptGet(UpstreamJson(c).v, "usage"))

\* C3: a capture whose store writes threw gives its caller the status and body that
\* the same call with the same upstream answer gets when no write throws, and never
\* the proxy error when upstream answered
C3_StoreFailureInvisible ==
  /\ \A c, d \in Captures :
       pc[c] = "done" /\ pc[d] = "done" /\ req[c] = req[d] /\ upstream[c] = upstream[d]
         /\ threw[c] # {} /\ threw[d] = {}
       => res[c] = res[d]
  /\ \A c \in Captures :
       Completed(c) /\ threw[c] # {} =>
         res[c].body # JSONstringify(ProxyError) /\ res[c].statusCode # 500

C3_Witness ==
  \E c, d \in Captures :
    /\ pc[c] = "done" /\ pc[d] = "done" /\ req[c] = req[d] /\ upstream[c] = upstream[d]
    /\ threw[c] = {"request", "response"} /\ threw[d] = {}
    /\ Completed(c) /\ ~IsStreaming(req[c].body)
    /\ res[c].statusCode = 200 /\ res[c].body = JSONstringify(JsonDocs["{msg}"])

\* C4: every capture that has begun has exactly one "request" message on the feed and
\* at most one "response" message, whatever its path
C4_OneRequestEvent ==
  \A c \in Captures :
    /\ Cardinality(EventsOf(feed, c, "request")) = IF pc[c] = "idle" THEN 0 ELSE 1
    /\ Cardinality(EventsOf(feed, c, "response")) <= 1

C4_Witness ==
  \E c \in Captures :
    /\ pc[c] = "done" /\ IsStreaming(req[c].body) /\ threw[c] = {"response"}
    /\ Cardinality(EventsOf(feed, c, "request")) = 1
    /\ Cardinality(EventsOf(feed, c, "response")) = 1

\* C5: a capture whose upstream call has completed, with success or with failure,
\* and whose writes did not throw has exactly one response row, written only after
\* the completion; no capture has two
C5_ResponseRowOnCompletion ==
  \A c \in Captures :
    /\ pc[c] = "done" /\ threw[c] = {} => Cardinality(RowsOf(responses, c)) = 1
    /\ RowsOf(responses, c) # {} => pc[c] = "done"
    /\ Cardinality(RowsOf(responses, c)) <= 1

\* what a capture's response row and "response" message hold when they are built
\* from that capture's own upstream data
OwnStoredBody(c) ==
  IF IsStreaming(req[c].body) THEN JStr(Decoded(upstream[c].chunks))
  ELSE JSONstringify(UpstreamJson(c).v)
OwnPublishedResponse(c) ==
  IF IsStreaming(req[c].body)
  THEN OrElse(parseStreamingResponse(Decoded(upstream[c].chunks)),
              JStr(Decoded(upstream[c].chunks)))
  ELSE UpstreamJson(c).v

\* C6: with captures overlapping in time, the accumulated stream text, the response
\* row and the "response" message of a capture are built from that capture's own
\* upstream data and carry its id, never another capture's
C6_NoCrossTalk ==
  /\ \A c \in Captures :
       Responded(c) /\ IsStreaming(req[c].body) =>
         fullResponse[c] = Decoded(upstream[c].chunks)
  /\ \A i \in DOMAIN responses :
       \E c \in Captures :
         /\ responses[i].request_id = RequestId(c)
         /\ Completed(c)
         /\ responses[i].body = OwnStoredBody(c)
  /\ \A i \in DOMAIN feed :
       feed[i].type = "response" =>
         \E c \in Captures :
           /\ feed[i].data.requestId = RequestId(c)
           /\ Completed(c)
           /\ feed[i].data.response = OwnPublishedResponse(c)

C6_Witness ==
  /\ Len(responses) = 2
  /\ responses[1].request_id = RequestId(2)
  /\ responses[2].request_id = RequestId(1)
  /\ IsStreaming(req[1].body) /\ IsStreaming(req[2].body)
  /\ upstream[1].chunks # upstream[2].chunks
  /\ Len(upstream[1].chunks) = 2 /\ Len(upstream[2].chunks) = 2
  /\ responses[1].body # responses[2].body

\* C7: when the upstream call itself fails, or its reply cannot be read as JSON on
\* the buffered path, the caller gets status 500 with the body {error: "Proxy error"},
\* once; an upstream reply with a non-2xx status is passed on with its status; the
\* upstream call is issued exactly once per capture
C7_UpstreamFailure ==
  \A c \in Captures :
    /\ Len(calls[c]) = IF pc[c] = "idle" THEN 0 ELSE 1
    /\ pc[c] = "done" /\ ~Completed(c) =>
         /\ res[c].statusCode = 500
         /\ res[c].body = JSONstringify(ProxyError)
         /\ res[c].replies = 1
    /\ Completed(c) /\ ~IsStreaming(req[c].body) =>
         /\ res[c].statusCode = upstream[c].status
         /\ res[c].body = JSONstringify(UpstreamJson(c).v)
         /\ res[c].replies = 1

C7_Witness ==
  \E c, d \in Captures :
    /\ pc[c] = "done" /\ upstream[c].outcome = "failed"
    /\ res[c].statusCode = 500 /\ Len(calls[c]) = 1
    /\ Completed(d) /\ ~IsStreaming(req[d].body)
    /\ upstream[d].status = 429 /\ res[d].statusCode = 429 /\ Len(calls[d]) = 1

\* C8: the status upstream returned is the status the caller gets and the status of
\* the stored response row, on the buffered and on the streaming path
C8_StatusPassthrough ==
  \A c \in Captures :
    Completed(c) =>
      /\ res[c].statusCode = upstream[c].status
      /\ \A i \in RowsOf(responses, c) : responses[i].status = upstream[c].status

\* whether a JavaScript value holds the token tok somewhere inside it
RECURSIVE Contains(_, _)
Contains(v, tok) ==
  CASE v.t = "string" ->
         IF "s" \in DOMAIN v THEN \E i \in DOMAIN v.s : v.s[i] = tok
         ELSE IF "json" \in DOMAIN v THEN Contains(v.json, tok)
         ELSE FALSE
    [] v.t = "array" -> \E i \in DOMAIN v.a : Contains(v.a[i], tok)
    [] v.t = "object" -> \E k \in DOMAIN v.o : Contains(v.o[k], tok)
    [] OTHER -> FALSE

ApiKeys == {"sk-1", "sk-2", "sk-env"}
HeaderValues == ApiKeys \cup {"2023-06-01"}
ValueFields == {"headers", "body", "input", "output", "tool_name", "tokens_used"}
RowHoldsKey(row) ==
  \E k \in DOMAIN row \cap ValueFields : \E key \in ApiKeys : Contains(row[k], key)
SansIds(row) == [k \in DOMAIN row \ {"id", "request_id", "requestId"} |-> row[k]]
RowsSansIds(table, c) == {SansIds(table[i]) : i \in RowsOf(table, c)}
RequestRowsSansIds(c) ==
  {SansIds(requests[i]) : i \in {j \in DOMAIN requests : requests[j].id = RequestId(c)}}

\* C9: no row of the store holds an API key, and two captures that differ only in
\* their API key leave the same rows up to the generated ids
C9_NoKeyInStore ==
  /\ \A i \in DOMAIN requests : ~RowHoldsKey(requests[i])
  /\ \A i \in DOMAIN responses : ~RowHoldsKey(responses[i])
  /\ \A i \in DOMAIN tool_calls : ~RowHoldsKey(tool_calls[i])
  /\ \A c, d \in Captures :
       pc[c] = "done" /\ pc[d] = "done" /\ req[c].body = req[d].body
         /\ upstream[c] = upstream[d] /\ threw[c] = threw[d]
       => /\ RequestRowsSansIds(c) = RequestRowsSansIds(d)
          /\ RowsSansIds(responses, c) = RowsSansIds(responses, d)
          /\ RowsSansIds(tool_calls, c) = RowsSansIds(tool_calls, d)

\* the messages of capture c in a log, in order, without the generated ids
RECURSIVE EventsSansIds(_, _)
EventsSansIds(log, c) ==
  IF log = <<>> THEN <<>>
  ELSE IF EventOwner(Head(log)) = RequestId(c)
       THEN <<[type |-> Head(log).type, data |-> SansIds(Head(log).data)]>>
              \o EventsSansIds(Tail(log), c)
       ELSE EventsSansIds(Tail(log), c)
EventHoldsHeaders(e) ==
  /\ "data" \in DOMAIN e
  /\ \/ "headers" \in DOMAIN e.data
     \/ \E k \in DOMAIN e.data : \E h \in HeaderValues : Contains(e.data[k], h)
SawAll(log, c) ==
  EventsOf(log, c, "request") # {} /\ EventsOf(log, c, "response") # {}

\* C10: no message published to observers holds the request headers or the API key,
\* and two captures that differ only in their headers publish the same messages, to
\* the feed and to every observer that saw both
C10_NoKeyInEvents ==
  /\ \A i \in DOMAIN feed : ~EventHoldsHeaders(feed[i])
  /\ \A o \in Observers : \A i \in DOMAIN inbox[o] : ~EventHoldsHeaders(inbox[o][i])
  /\ \A c, d \in Captures :
       pc[c] = "done" /\ pc[d] = "done" /\ req[c].body = req[d].body
         /\ upstream[c] = upstream[d] /\ threw[c] = threw[d]
       => /\ EventsSansIds(feed, c) = EventsSansIds(feed, d)
          /\ \A o \in Observers :
               SawAll(inbox[o], c) /\ SawAll(inbox[o], d) =>
                 EventsSansIds(inbox[o], c) = EventsSansIds(inbox[o], d)

C10_Witness ==
  \E c, d \in Captures : \E o \in Observers :
    /\ pc[c] = "done" /\ pc[d] = "done" /\ req[c].body = req[d].body
    /\ req[c].headers # req[d].headers /\ upstream[c] = upstream[d]
    /\ SawAll(inbox[o], c) /\ SawAll(inbox[o], d)
    /\ Len(EventsSansIds(inbox[o], c)) >= 3

\* the tool_use blocks upstream's reply to a buffered capture holds
OwnToolUses(c) ==
  IF Completed(c) /\ ~IsStreaming(req[c].body) THEN ToolUses(UpstreamJson(c).v) ELSE <<>>

\* C11: a buffered capture whose reply holds n tool_use blocks has n "tool_call"
\* messages on the feed, whether or not its store writes threw
C11_ToolCallEvents ==
  \A c \in Captures :
    Completed(c) /\ ~IsStreaming(req[c].body) =>
      Cardinality(EventsOf(feed, c, "tool_call")) = Len(OwnToolUses(c))

\* the messages of one type that belong to capture c, in the order of the log
RECURSIVE EventSeqOf(_, _, _)
EventSeqOf(log, c, type) ==
  IF log = <<>> THEN <<>>
  ELSE IF Head(log).type = type /\ EventOwner(Head(log)) = RequestId(c)
       THEN <<Head(log)>> \o EventSeqOf(Tail(log), c, type)
       ELSE EventSeqOf(Tail(log), c, type)
RECURSIVE RowSeqOf(_, _)
RowSeqOf(table, c) ==
  IF table = <<>> THEN <<>>
  ELSE IF Head(table).request_id = RequestId(c)
       THEN <<Head(table)>> \o RowSeqOf(Tail(table), c)
       ELSE RowSeqOf(Tail(table), c)

\* C12: the tool_call messages and the tool_calls rows of a capture follow the order
\* of the tool_use blocks of its reply, and each of them carries the id of that
\* capture, also while other captures are in flight
C12_ToolCallOrder ==
  /\ \A c \in Captures :
       LET tools == OwnToolUses(c)
           events == EventSeqOf(feed, c, "tool_call")
           rows == RowSeqOf(tool_calls, c)
       IN /\ Len(events) = Len(tools) /\ Len(rows) = Len(tools)
          /\ \A i \in DOMAIN tools :
               /\ events[i].data.toolName = Get(tools[i], "name")
               /\ Get(tools[i], "input") =
                    IF "input" \in DOMAIN events[i].data THEN events[i].data.input
                    ELSE Undef
               /\ rows[i].tool_name = Get(tools[i], "name")
  /\ \A i \in DOMAIN feed :
       feed[i].type = "tool_call" =>
         \E c \in Captures : feed[i].data.requestId = RequestId(c)
  /\ \A i \in DOMAIN tool_calls :
       \E c \in Captures : tool_calls[i].request_id = RequestId(c)

C12_Witness ==
  \E c, d \in Captures :
    /\ c # d /\ pc[d] = "fetch"
    /\ Len(OwnToolUses(c)) = 2
    /\ Get(OwnToolUses(c)[1], "name") # Get(OwnToolUses(c)[2], "name")
    /\ \E i, j, k \in DOMAIN feed :
         /\ i < j /\ j < k
         /\ feed[i].type = "request" /\ EventOwner(feed[i]) = RequestId(d)
         /\ feed[j].type = "tool_call" /\ EventOwner(feed[j]) = RequestId(c)
         /\ feed[j].data.toolName = Get(OwnToolUses(c)[1], "name")
         /\ feed[k].type = "tool_call" /\ EventOwner(feed[k]) = RequestId(c)
         /\ feed[k].data.toolName = Get(OwnToolUses(c)[2], "name")

\* tokensOf as the contract words it: the total field when present and numeric, else
\* input + output with each term 0 when absent or not numeric, 0 for what is no record
TokensOf(usage) ==
  IF usage.t # "object" THEN JNum(0)
  ELSE LET term(k) == IF Get(usage, k).t = "number" THEN Get(usage, k) ELSE JNum(0)
       IN IF Get(usage, "total_tokens").t = "number" THEN Get(usage, "total_tokens")
          ELSE Plus(term("input_tokens"), term("output_tokens"))

\* C13: for every usage value calculateTokens returns tokensOf of it, and the UI's
\* calculateTokens returns the same value
C13_TokensOf ==
  result # Undef => result = TokensOf(arg) /\ uiResult = result

\* the usage information that can be derived from what upstream sent to capture c
DerivableUsage(c) ==
  IF IsStreaming(req[c].body)
  THEN OrElse(OptGet(parseStreamingResponse(Decoded(upstream[c].chunks)), "usage"),
              extractUsageFromSSE(Decoded(upstream[c].chunks)))
  ELSE OptGet(UpstreamJson(c).v, "usage")

\* C14: every response row, of the buffered and of the streaming path, has a
\* tokens_used that is an integer and not null, 0 when no usage can be derived
C14_TokensUsedInteger ==
  \A i \in DOMAIN responses :
    /\ IsFinite(responses[i].tokens_used)
    /\ \A c \in Captures :
         responses[i].request_id = RequestId(c) /\ ~Truthy(DerivableUsage(c))
           => responses[i].tokens_used = JNum(0)

\* the usages carried by the records of one event name, in the order of the stream
RECURSIVE UsagesOf(_, _)
UsagesOf(rs, evt) ==
  IF rs = <<>> THEN <<>>
  ELSE LET r == Head(rs)
           doc == IF r.doc \in DOMAIN JsonDocs THEN JsonDocs[r.doc] ELSE Undef
           u == IF evt = "message_delta" THEN Get(doc, "usage")
                ELSE Get(Get(doc, "message"), "usage")
       IN IF r.evt = evt /\ Truthy(u) THEN <<u>> \o UsagesOf(Tail(rs), evt)
          ELSE UsagesOf(Tail(rs), evt)

\* C15: extractUsageFromSSE returns the usage of a message_delta record whenever one
\* carries usage, whatever the order of the records, and the usage of a
\* message_start record only when no message_delta record carries usage
C15_DeltaPreferred ==
  result # Undef =>
    LET deltas == UsagesOf(arg, "message_delta")
        starts == UsagesOf(arg, "message_start")
    IN IF deltas # <<>> THEN \E i \in DOMAIN deltas : result = deltas[i]
       ELSE IF starts # <<>> THEN \E i \in DOMAIN starts : result = starts[i]
       ELSE result = JNull

\* a step in which POST /api/clear has answered, and the status it answered with
ClearReplied == Len(clearRes') = Len(clearRes) + 1
ClearStatus == clearRes'[Len(clearRes')].status
KeepsRows(old, new) == \A i \in DOMAIN old : \E j \in DOMAIN new : new[j] = old[i]

\* C16: whenever clear reports failure, every row that was in sessions, requests,
\* responses and tool_calls before the call is still there after it
C16_ClearFailureKeepsRows ==
  [][ClearReplied /\ ClearStatus = 500 =>
       /\ KeepsRows(sessions, sessions')
       /\ KeepsRows(requests, requests')
       /\ KeepsRows(responses, responses')
       /\ KeepsRows(tool_calls, tool_calls')]_vars

\* C17: a call of clear leaves the four tables exactly as they were, or leaves
\* requests, responses and tool_calls empty and sessions without any earlier row;
\* no step ends with only some of the tables deleted
C17_DeleteAllOrNothing ==
  [][ClearReplied =>
       \/ Tables' = Tables
       \/ /\ requests' = <<>> /\ responses' = <<>> /\ tool_calls' = <<>>
          /\ \A i \in DOMAIN sessions' : \A j \in DOMAIN sessions :
               sessions'[i] # sessions[j]]_vars

C17_Witness ==
  /\ clearRes # <<>>
  /\ clearRes[Len(clearRes)].status = 500
  /\ currentSessionId = SessionId(1)
  /\ sessions # <<>> /\ requests # <<>> /\ responses # <<>> /\ tool_calls # <<>>

\* C18: a call of clear in which no statement throws succeeds, also on an empty
\* store; a successful call leaves one fresh session that differs from the previous
\* one, empty requests, responses and tool_calls, an empty answer of the trace
\* query, and one "cleared" message on the feed
C18_ClearIdempotent ==
  [][ClearReplied =>
       /\ faultsLeft = 0 => ClearStatus = 200
       /\ ClearStatus = 200 =>
            /\ currentSessionId' # currentSessionId
            /\ sessions' = <<SessionRow(currentSessionId')>>
            /\ \A i \in DOMAIN sessions : sessions[i].id # currentSessionId'
            /\ requests' = <<>> /\ responses' = <<>> /\ tool_calls' = <<>>
            /\ Traces' = <<>>
            /\ feed' = Append(feed, [type |-> "cleared"])]_vars

C18_Witness ==
  /\ Len(clearRes) = 2
  /\ clearRes[1].status = 200 /\ clearRes[2].status = 200
  /\ Len(feed) >= 2
  /\ feed[Len(feed)].type = "cleared" /\ feed[Len(feed) - 1].type = "cleared"
  /\ currentSessionId = SessionId(3)
  /\ sessions = <<SessionRow(SessionId(3))>>
  /\ Traces = <<>>

\* C19: the request row a capture writes when it begins carries the session id that
\* is active at that moment; no later step, a rotation included, changes the session
\* id of a row that stays; a rotation makes a session id no earlier session has
C19_SessionAttribution ==
  [][/\ \A c \in Captures :
          pc[c] = "idle" /\ pc'[c] # "idle" =>
            \A i \in DOMAIN requests' :
              requests'[i].id = RequestId(c) =>
                requests'[i].session_id = currentSessionId
     /\ \A i \in DOMAIN requests : \A j \in DOMAIN requests' :
          requests'[j].id = requests[i].id =>
            requests'[j].session_id = requests[i].session_id
     /\ currentSessionId' # currentSessionId =>
          \A i \in DOMAIN sessions : sessions[i].id # currentSessionId']_vars

C19_Witness ==
  \E c, d \in Captures :
    /\ c # d /\ pc[c] = "done" /\ currentSessionId = SessionId(2)
    /\ \E i, j, k \in DOMAIN feed :
         /\ i < j /\ j < k
         /\ feed[i].type = "request" /\ EventOwner(feed[i]) = RequestId(c)
         /\ feed[j].type = "cleared"
         /\ feed[k].type = "response" /\ EventOwner(feed[k]) = RequestId(c)
    /\ \E i \in DOMAIN requests :
         requests[i].id = RequestId(d) /\ requests[i].session_id = SessionId(2)

\* the messages handed to broadcast in a step
Broadcast == SubSeq(feed', Len(feed) + 1, Len(feed'))
Subscribed(o) == o \in clients /\ readyState[o] = WEBSOCKET_READY_STATE_OPEN

Connected == {o \in Observers : readyState[o] # 0}

\* C21: whatever the interleaving of connects, close events and the publishes of
\* overlapping captures, this.clients is the set of the observers that have connected
\* and whose close event has not been handled; a step of a capture leaves the set as
\* it is and publishes its message whatever state the observers are in
C21_Membership ==
  /\ [](clients = Connected \ closed)
  /\ [][\A c \in Captures :
          pc'[c] # pc[c] =>
            /\ clients' = clients
            /\ pc[c] = "idle" => EventsOf(feed', c, "request") # {}
            /\ Completed(c)' => EventsOf(feed', c, "response") # {}]_vars

C21_Witness ==
  \E o \in Observers : \E c, d \in Captures :
    /\ o \in closed /\ o \notin clients
    /\ pc[c] = "done" /\ Completed(c) /\ pc[d] = "fetch"
    /\ EventsOf(inbox[o], c, "request") # {}
    /\ EventsOf(inbox[o], d, "request") = {}
    /\ EventsOf(inbox[o], c, "response") = {}
    /\ EventsOf(feed, d, "request") # {}
    /\ EventsOf(feed, c, "response") # {}

\* C22: an observer that has connected has received the "connected" message once, and
\* as the first of its messages; an observer that has not connected has received
\* nothing
C22_ConnectedFirst ==
  \A o \in Observers :
    IF o \in Connected
    THEN /\ inbox[o] # <<>>
         /\ inbox[o][1].type = "connected"
         /\ Cardinality({i \in DOMAIN inbox[o] : inbox[o][i].type = "connected"}) = 1
    ELSE inbox[o] = <<>>

C22_Witness ==
  \E o \in Observers : \E c, d \in Captures :
    /\ Len(inbox[o]) >= 4
    /\ inbox[o][1].type = "connected"
    /\ inbox[o][2].type = "tool_call" /\ EventOwner(inbox[o][2]) = RequestId(c)
    /\ EventsOf(feed, c, "request") # {}
    /\ EventsOf(inbox[o], c, "request") = {}
    /\ EventsOf(inbox[o], d, "request") = {}
    /\ EventsOf(inbox[o], d, "response") # {}

EventKinds == {"connected", "request", "response", "tool_call", "cleared"}

\* C23: every message handed to broadcast or sent to an observer is of one of the
\* five kinds connected, request, response, tool_call, cleared
C23_EventKinds ==
  /\ \A i \in DOMAIN feed : feed[i].type \in EventKinds
  /\ \A o \in Observers : \A i \in DOMAIN inbox[o] : inbox[o][i].type \in EventKinds

\* the trace query has answered; the request rows it had to select from
Answered == result # Undef
Selected ==
  IF arg # Undef THEN {i \in DOMAIN requests : requests[i].session_id = arg}
  ELSE DOMAIN requests
ResponsesFor(id) == {j \in DOMAIN responses : responses[j].request_id = id}
ToolCallsFor(id) == {j \in DOMAIN tool_calls : tool_calls[j].request_id = id}
ReturnedIds == {result.body[k].id : k \in DOMAIN result.body}

\* C24: the answer of GET /api/traces holds, for each request row selected, that row
\* with one of its response rows (null when it has none) and all of its tool-call
\* rows, latest timestamp first; with a session id the rows of that session and no
\* other, without one the RECENT_LIMIT latest rows at most
C24_TraceQuery ==
  Answered =>
    /\ \A k \in DOMAIN result.body :
         \E i \in Selected :
           /\ \A col \in DOMAIN requests[i] \ {"body", "stream"} :
                result.body[k][col] = requests[i][col]
           /\ IF ResponsesFor(requests[i].id) = {} THEN result.body[k].response = JNull
              ELSE \E j \in ResponsesFor(requests[i].id) :
                     result.body[k].response.id = responses[j].id
           /\ Len(result.body[k].toolCalls) = Cardinality(ToolCallsFor(requests[i].id))
           /\ \A j \in ToolCallsFor(requests[i].id) :
                \E m \in DOMAIN result.body[k].toolCalls :
                  result.body[k].toolCalls[m] = tool_calls[j]
    /\ \A k, m \in DOMAIN result.body : k # m => result.body[k].id # result.body[m].id
    /\ \A k \in DOMAIN result.body :
         k < Len(result.body) => result.body[k].timestamp >= result.body[k + 1].timestamp
    /\ arg # Undef => ReturnedIds = {requests[i].id : i \in Selected}
    /\ arg = Undef =>
         /\ Len(result.body) = IF Len(requests) < RECENT_LIMIT THEN Len(requests)
                                ELSE RECENT_LIMIT
         /\ \A i \in DOMAIN requests :
              requests[i].id \notin ReturnedIds =>
                \A k \in DOMAIN result.body :
                  requests[i].timestamp <= result.body[k].timestamp

C24_Witness ==
  /\ Answered /\ arg = Undef
  /\ Len(requests) = RECENT_LIMIT + 1 /\ Len(result.body) = RECENT_LIMIT
  /\ requests[1].id \in ReturnedIds
  /\ requests[Len(requests)].id \notin ReturnedIds
  /\ \E k, m \in DOMAIN result.body :
       /\ result.body[k].response = JNull
       /\ Len(result.body[m].toolCalls) = 2 /\ result.body[m].response # JNull
       /\ result.body[k].session_id # result.body[m].session_id

\* a stored text that JSON.parse rejects
Malformed(text) == text.t = "string" /\ ~ParseStored(text).ok

\* C25: the trace query answers whatever the stored bodies are; a request or response
\* body that is no JSON is returned as the stored text, unchanged, and every selected
\* trace is in the answer
C25_MalformedBodies ==
  Answered =>
    /\ result.status = 200
    /\ Len(result.body) =
         IF arg = Undef /\ Cardinality(Selected) > RECENT_LIMIT THEN RECENT_LIMIT
         ELSE Cardinality(Selected)
    /\ \A k \in DOMAIN result.body :
         \A i \in Selected :
           requests[i].id = result.body[k].id =>
             /\ Malformed(requests[i].body) => result.body[k].body = requests[i].body
             /\ \A j \in ResponsesFor(requests[i].id) :
                  Malformed(responses[j].body) =>
                    result.body[k].response.body = responses[j].body

C27_TerminalOutcome ==
  \A c \in Captures : (pc[c] # "idle") ~> res[c].finished

\* C28: a streaming capture whose caller has gone keeps receiving: its buffer holds all
\* text received so far, it ends only when upstream's reply has ended, and at that
\* point it has one response row, whose body is all text received from upstream, and
\* one "response" message
C28_DisconnectedCaller ==
  \A c \in Captures :
    res[c].destroyed /\ upstream[c].outcome = "responded" =>
      /\ pc[c] \in {"streaming", "done"}
      /\ fullResponse[c] = Decoded(upstream[c].chunks)
      /\ res[c].finished => pc[c] = "done"
      /\ pc[c] = "done" =>
           /\ plan[c] = <<>>
           /\ Cardinality(RowsOf(responses, c)) = 1
           /\ \A i \in RowsOf(responses, c) :
                responses[i].body = JStr(Decoded(upstream[c].chunks))
           /\ Cardinality(EventsOf(feed, c, "response")) = 1

C28_Witness ==
  \E c \in Captures :
    /\ res[c].destroyed /\ pc[c] = "done" /\ upstream[c].outcome = "responded"
    /\ Len(upstream[c].chunks) = 2 /\ Len(res[c].chunks) = 1
    /\ \E i \in RowsOf(responses, c) :
         responses[i].body = JStr(Decoded(upstream[c].chunks))
    /\ Cardinality(EventsOf(feed, c, "response")) = 1

\* another capture than d is waiting for upstream or in the middle of a stream
OthersWaiting(d) == \E c \in Captures \ {d} : Waiting(c)

\* C29: while a capture is waiting for upstream or in the middle of a stream, every
\* other capture can take its next step (start with either body, receive upstream's
\* answer, receive a chunk, end), and clear and the sessions query can run
C29_NoBlocking ==
  /\ \A d \in Captures :
       OthersWaiting(d) =>
         /\ pc[d] = "idle" /\ (\A e \in Captures : e < d => pc[e] # "idle")
              => \A body \in InboundBodies :
                   ENABLED PostMessages(d, HeadersWithKey("sk-1"), body)
         /\ pc[d] = "fetch" /\ ~IsStreaming(req[d].body)
              => ENABLED RegularReply(d, BufferedReply)
         /\ pc[d] = "fetch" /\ IsStreaming(req[d].body)
              => ENABLED StreamReply(d, StreamedReply)
         /\ pc[d] = "streaming" /\ plan[d] # <<>> => ENABLED StreamData(d)
         /\ pc[d] = "streaming" /\ plan[d] = <<>> => ENABLED StreamEnd(d)
  /\ (\E c \in Captures : Waiting(c)) =>
       /\ clearRes = <<>> => ENABLED ClearTraces
       /\ ENABLED GetSessions

\* a streaming capture is still in the middle of its stream while a capture that
\* started after it has ended with its row stored, a clear has been answered after
\* that, and the sessions query has been answered
C29_Witness ==
  \E c, d \in Captures :
    /\ c < d /\ pc[c] = "streaming" /\ plan[c] # <<>> /\ Len(upstream[c].chunks) = 1
    /\ pc[d] = "done" /\ res[d].finished /\ res[d].statusCode = 200
    /\ Len(clearRes) = 1 /\ clearRes[1].status = 200
    /\ result # Undef /\ result.status = 200 /\ result.body = <<SessionRow(SessionId(2))>>

\* C30: for every streaming capture that reached the end of its stream, the body of
\* its response row is the accumulated text, and its "response" message carries the
\* object parseStreamingResponse rebuilt from that text, or else the text, and the
\* total token count of the text
C30_StreamEndRecord ==
  \A c \in Captures :
    Completed(c) /\ IsStreaming(req[c].body) =>
      /\ \A i \in RowsOf(responses, c) : responses[i].body = JStr(fullResponse[c])
      /\ \A i \in EventsOf(feed, c, "response") :
           /\ feed[i].data.response =
                OrElse(parseStreamingResponse(fullResponse[c]), JStr(fullResponse[c]))
           /\ "tokensUsedTotal" \in DOMAIN feed[i].data
           /\ feed[i].data.tokensUsedTotal = StreamTokensTotal(fullResponse[c])

\* the line, trimmed, is a complete JSON object; the objects among the lines, in order
IsJsonObject(line) == JSONparse(line).ok /\ JSONparse(line).v.t = "object"
ObjectsOf(lines) ==
  LET at == SelectSeq([i \in DOMAIN lines |-> i], LAMBDA i : IsJsonObject(lines[i]))
  IN [k \in DOMAIN at |-> JSONparse(lines[at[k]]).v]

\* C31: parseStreamingResponse returns the object of the last line that is a complete
\* JSON object, and null only when no line is one
C31_LastJsonObject ==
  result # Undef =>
    LET objects == ObjectsOf(arg)
    IN IF objects = <<>> THEN result = JNull ELSE result = objects[Len(objects)]

\* the records of the stream arg that arrived with data that is JSON
DataIsJson(r) == r.doc \in DOMAIN JsonDocs
IntactRecords(a) ==
  IF a.records = <<>> \/ a.cut \in {"whole", "no_separator"}
  THEN SelectSeq(a.records, DataIsJson)
  ELSE SelectSeq(SubSeq(a.records, 1, Len(a.records) - 1), DataIsJson)
ParsedEvents(events) == SelectSeq(events, LAMBDA e : e.data.t # "string")

\* C32: for a stream with records whose data is not JSON, or broken off in its last
\* record, extractUsageFromSSE returns what it returns for the other records alone,
\* and the events parseSSEToEvents returns with parsed data are those of the other
\* records alone
C32_TolerantScan ==
  result # Undef =>
    /\ result = extractUsageFromSSE(RenderSse(IntactRecords(arg)))
    /\ ParsedEvents(uiResult) = parseSSEToEvents(RenderSse(IntactRecords(arg)))

\* a message_start record with usage, then a message_delta record whose data was cut
C32_Witness ==
  /\ result = UsageStart
  /\ arg.cut = "data_cut" /\ Len(arg.records) = 2
  /\ arg.records[1] = [evt |-> "message_start", doc |-> "{start}"]
  /\ arg.records[2].evt = "message_delta"
  /\ Len(uiResult) = 2 /\ uiResult[2].data = JStr(<<"{bad}">>)

\* C33: every row of responses and of tool_calls references a row of requests
C33_NoOrphanRows ==
  /\ \A i \in DOMAIN responses :
       \E j \in DOMAIN requests : requests[j].id = responses[i].request_id
  /\ \A i \in DOMAIN tool_calls :
       \E j \in DOMAIN requests : requests[j].id = tool_calls[i].request_id

\* a buffered and a streaming capture whose request rows a clear deleted before
\* upstream had answered, both ended
C33_Witness ==
  \E c, d \in Captures :
    /\ Completed(c) /\ ~IsStreaming(req[c].body)
    /\ Completed(d) /\ IsStreaming(req[d].body)
    /\ Len(clearRes) = 1 /\ clearRes[1].status = 200
    /\ "request" \notin threw[c] /\ "response" \in threw[c]
    /\ "request" \notin threw[d] /\ "response" \in threw[d]
    /\ requests = <<>> /\ responses = <<>> /\ tool_calls = <<>>

\* what the "response" messages of capture c carry: the payload and the token field
ResponseContentOf(c) ==
  {[response |-> feed[i].data.response,
    tokens |-> IF "tokensUsedTotal" \in DOMAIN feed[i].data THEN feed[i].data.tokensUsedTotal
               ELSE IF "tokensUsed" \in DOMAIN feed[i].data THEN feed[i].data.tokensUsed
               ELSE Undef] : i \in EventsOf(feed, c, "response")}

\* C34: two captures of the same kind that got the same answer from upstream publish
\* "response" messages with the same payload and the same token total, whether or
\* not their response rows could be written
C34_EventIndependentOfStore ==
  \A c, d \in Captures :
    Completed(c) /\ Completed(d) /\ req[c].body = req[d].body /\ upstream[c] = upstream[d]
      => ResponseContentOf(c) = ResponseContentOf(d)

\* C35: a streaming capture has no row in tool_calls and no "tool_call" message
C35_NoToolCallsFromStreams ==
  \A c \in Captures :
    pc[c] # "idle" /\ IsStreaming(req[c].body) =>
      /\ RowsOf(tool_calls, c) = {}
      /\ EventsOf(feed, c, "tool_call") = {}

\* a streaming capture that ended, whose "response" message carries tool_use blocks
C35_Witness ==
  \E c \in Captures :
    /\ Completed(c) /\ IsStreaming(req[c].body) /\ upstream[c].chunks = ToolUseStream
    /\ RowsOf(responses, c) # {}
    /\ \E i \in EventsOf(feed, c, "response") : Len(ToolUses(feed[i].data.response)) = 2
    /\ tool_calls = <<>>

\* the place of a message in its capture: request, tool calls, response
Rank(e) ==
  CASE e.type = "request" -> 1
    [] e.type = "tool_call" -> 2
    [] e.type = "response" -> 3
    [] OTHER -> 0
InOrder(log) ==
  \A i, j \in DOMAIN log :
    i < j /\ EventOwner(log[i]) # Undef /\ EventOwner(log[i]) = EventOwner(log[j])
      => Rank(log[i]) <= Rank(log[j])
\* the messages of capture c in log, in order, and their types
EventsIn(log, c) == SelectSeq(log, LAMBDA e : EventOwner(e) = RequestId(c))
TypesIn(log, c) == [i \in DOMAIN EventsIn(log, c) |-> EventsIn(log, c)[i].type]

\* C36: in the feed and in what each observer has been sent, the messages of a
\* capture are in the order request, tool calls, response, whatever messages of
\* other captures lie between them; an observer that is subscribed and open and has
\* the request message of a capture has all its messages so far; a capture that
\* ended begins with its request message and ends with its response message
C36_EventOrder ==
  /\ InOrder(feed)
  /\ \A o \in Observers :
       /\ InOrder(inbox[o])
       /\ \A c \in Captures :
            Subscribed(o) /\ EventsOf(inbox[o], c, "request") # {}
              => EventsIn(inbox[o], c) = EventsIn(feed, c)
  /\ \A c \in Captures :
       Completed(c) =>
         LET types == TypesIn(feed, c)
         IN /\ types[1] = "request" /\ types[Len(types)] = "response"
            /\ \A i \in 2..(Len(types) - 1) : types[i] = "tool_call"

\* an observer got request, two tool calls and response of a capture, with a message
\* of another capture between them
C36_Witness ==
  \E o \in Observers : \E c, d \in Captures :
    /\ c # d /\ Subscribed(o) /\ Completed(c)
    /\ TypesIn(inbox[o], c) = <<"request", "tool_call", "tool_call", "response">>
    /\ \E i, j, k \in DOMAIN inbox[o] :
         /\ i < j /\ j < k
         /\ i \in EventsOf(inbox[o], c, "request")
         /\ EventOwner(inbox[o][j]) = RequestId(d)
         /\ k \in EventsOf(inbox[o], c, "tool_call")

\* C37: between handler steps exactly one session row has the identifier held in
\* this.currentSessionId, after any captures and clear operations, failed ones too
C37_ActiveSessionExists ==
  Cardinality({i \in DOMAIN sessions : sessions[i].id = currentSessionId}) = 1

ClearedIn(log) == {i \in DOMAIN log : log[i].type = "cleared"}

\* C38: a step publishes "cleared" only if it is a call of clear that answers 200,
\* and then the tables hold nothing but the row of the fresh active session; a
\* call that answers 200 publishes it once, a call that answers 500 publishes nothing
C38_ClearedOnlyOnSuccess ==
  [][/\ ClearedIn(feed') # ClearedIn(feed) =>
          /\ ClearReplied /\ ClearStatus = 200
          /\ requests' = <<>> /\ responses' = <<>> /\ tool_calls' = <<>>
          /\ currentSessionId' # currentSessionId
          /\ sessions' = <<SessionRow(currentSessionId')>>
     /\ ClearReplied /\ ClearStatus = 200 =>
          /\ Len(feed') = Len(feed) + 1
          /\ feed'[Len(feed')] = [type |-> "cleared"]
     /\ ClearReplied /\ ClearStatus = 500 => feed' = feed /\ inbox' = inbox]_vars

\* one call of clear failed after the commit and published nothing, another
\* succeeded and published "cleared"
C38_Witness ==
  /\ Len(clearRes) = 2
  /\ clearRes[1].status = 500 /\ clearRes[2].status = 200
  /\ Cardinality(ClearedIn(feed)) = 1
  /\ currentSessionId = SessionId(3)
  /\ requests = <<>>

\* C39: a client that connects is sent the greeting and nothing of what was published
\* before; what an observer has been sent after its greeting is one unbroken stretch
\* of the feed, which reaches the end of the feed while the observer is subscribed and
\* open and holds nothing published before it connected
C39_NoReplay ==
  /\ [][\A o \in Observers :
          o \in clients' \ clients => inbox[o] = <<>> /\ inbox'[o] = Greeting]_vars
  /\ [](\A o \in Observers :
          inbox[o] # <<>> =>
            /\ inbox[o][1] = Greeting[1]
            /\ \E a \in 0..Len(feed) : \E b \in a..Len(feed) :
                 /\ Tail(inbox[o]) = SubSeq(feed, a + 1, b)
                 /\ Subscribed(o) => b = Len(feed))
  /\ [][\A o \in Observers :
          Subscribed(o) /\ inbox[o] = Greeting => Tail(inbox'[o]) = Broadcast]_vars

\* an observer that connected between the request message and the tool-call and
\* response messages of a capture holds the latter and not the former
C39_Witness ==
  \E o \in Observers : \E c \in Captures :
    /\ Subscribed(o) /\ Completed(c)
    /\ EventsOf(feed, c, "request") # {}
    /\ EventsOf(inbox[o], c, "request") = {}
    /\ TypesIn(inbox[o], c) = <<"tool_call", "tool_call", "response">>

\* C40: every session row has total_requests 0, total_tokens 0 and ended_at NULL, and
\* no step changes a row that stays in the table, whatever is captured in the
\* session, asked of the store or cleared
C40_SessionRowsFrozen ==
  /\ [](\A i \in DOMAIN sessions :
          /\ sessions[i].total_requests = JNum(0)
          /\ sessions[i].total_tokens = JNum(0)
          /\ sessions[i].ended_at = JNull)
  /\ [][\A i \in DOMAIN sessions : \A j \in DOMAIN sessions' :
          sessions'[j].id = sessions[i].id => sessions'[j] = sessions[i]]_vars

\* two captures with tokens are stored in the active session, next to the session of
\* an earlier run, and the sessions have been listed
C40_Witness ==
  /\ Len(sessions) = 2 /\ currentSessionId = SessionId(1)
  /\ \A c \in Captures : Completed(c) /\ RowsOf(responses, c) # {}
  /\ \A i \in DOMAIN requests : requests[i].session_id = currentSessionId
  /\ \E i \in DOMAIN responses :
       responses[i].tokens_used \notin {JNull, JNum(0)}
  /\ result # Undef /\ Len(result.body) = 2
====
